---- MODULE Spec2Model ----
(***************************************************************************)
(* RBAC core of the school-management backend: the role / permission /     *)
(* menu tables, the three junction tables, the service operations that     *)
(* write them and the authorization predicates that read them.             *)
(*                                                                         *)
(* A row id (uuid.New()) is the row's index in its table, so a table is a  *)
(* sequence of rows and a fresh id is Len(table) + 1.  A Go pointer is a   *)
(* set with at most one element: Nil is {} and a pointer to v is {v}.      *)
(* deleted_at is kept as the boolean "deleted_at IS NOT NULL".             *)
(*                                                                         *)
(* Every service call has an error operator (<Call>Error: the error the    *)
(* call returns in the current state, NoErr for none) and an action that   *)
(* writes the tables as the call does; `last` names the last call that     *)
(* returned, with its error.  The migration's seed rows are rows the calls *)
(* can create, so the tables start empty.                                  *)
(***************************************************************************)
EXTENDS Integers, Sequences, FiniteSets, TLC

VARIABLES roles, permissions, menus, role_permissions, user_roles, role_menus,
          pending, last

vars == <<roles, permissions, menus, role_permissions, user_roles, role_menus,
          pending, last>>

(***************************************************************************)
(* Bounds                                                                  *)
(***************************************************************************)
MaxRoles == 2

MaxPermissions == 2

MaxMenus == 2

MaxIDs == 2

MaxAuthzPermissions == 1

MaxGrantRoles == 2

MaxGrantPermissions == 3

MaxEntries == 2

MaxTreeMenus == 3

MaxUserMenuEntries == 1

MaxProcs == 2

(***************************************************************************)
(* Values                                                                  *)
(***************************************************************************)
Nil == {}

Ptr(v) == {v}

Deref(p) == CHOOSE v \in p : TRUE

Range(s) == {s[i] : i \in DOMAIN s}

SeqsUpTo(S, n) == UNION {[1..k -> S] : k \in 0..n}

NoErr == "nil"

Returned(op, err) == [op |-> op, err |-> err]

(***************************************************************************)
(* GORM Create: a zero value of a column tagged `default:` is replaced by  *)
(* the default (callbacks/create.go, ConvertToCreateValues).  is_active    *)
(* and can_view are tagged default:true.                                   *)
(***************************************************************************)
NoColumnDefault(v, dflt) == v

GormCreateDefault(v, dflt) == IF v = FALSE THEN dflt ELSE v

(***************************************************************************)
(* Persistence adapter: roles                                              *)
(***************************************************************************)
FindRoleByPrimaryKey(id) == IF id \in DOMAIN roles THEN Ptr(id) ELSE Nil

GetRoleByID(id) ==
    IF id \in DOMAIN roles /\ ~roles[id].DeletedAt THEN Ptr(id) ELSE Nil

NoRoleBySlug(slug) == Nil

GetRoleBySlug(slug) ==
    LET hits == {i \in DOMAIN roles : roles[i].Slug = slug /\ ~roles[i].DeletedAt}
    IN  IF hits = {} THEN Nil
        ELSE Ptr(CHOOSE i \in hits : \A j \in hits : i <= j)

AllRoles == DOMAIN roles

\* WHERE deleted_at IS NULL; the search pattern and the page narrow the
\* rows further and are left out (search "", one page holding every row).
GetRoles == {i \in DOMAIN roles : ~roles[i].DeletedAt}

\* A table roles without its unique indexes.
NoRolesUniqueViolation(e, self) == FALSE

\* UNIQUE(name), UNIQUE(slug) of table roles; deleted rows still hold theirs.
RolesUniqueViolation(e, self) ==
    \E i \in DOMAIN roles \ self :
        roles[i].Name = e.Name \/ roles[i].Slug = e.Slug

RepoCreateRole(e) ==
    LET row == [e EXCEPT !.IsActive = GormCreateDefault(e.IsActive, TRUE)]
    IN  IF RolesUniqueViolation(row, {})
        THEN [err |-> "duplicate entry", tbl |-> roles]
        ELSE [err |-> NoErr, tbl |-> Append(roles, row)]

\* db.Save: UPDATE of every column of the row with this primary key.
RepoUpdateRole(id, e) ==
    IF RolesUniqueViolation(e, {id})
    THEN [err |-> "duplicate entry", tbl |-> roles]
    ELSE [err |-> NoErr, tbl |-> [roles EXCEPT ![id] = e]]

(***************************************************************************)
(* Persistence adapter: permissions                                        *)
(***************************************************************************)
GetPermissionByID(id) ==
    IF id \in DOMAIN permissions /\ ~permissions[id].DeletedAt
    THEN Ptr(id) ELSE Nil

GetPermissionBySlug(slug) ==
    LET hits == {i \in DOMAIN permissions :
                    permissions[i].Slug = slug /\ ~permissions[i].DeletedAt}
    IN  IF hits = {} THEN Nil
        ELSE Ptr(CHOOSE i \in hits : \A j \in hits : i <= j)

GetPermissions == {i \in DOMAIN permissions : ~permissions[i].DeletedAt}

PermissionsUniqueViolation(e, self) ==
    \E i \in DOMAIN permissions \ self :
        permissions[i].Name = e.Name \/ permissions[i].Slug = e.Slug

RepoCreatePermission(e) ==
    LET row == [e EXCEPT !.IsActive = GormCreateDefault(e.IsActive, TRUE)]
    IN  IF PermissionsUniqueViolation(row, {})
        THEN [err |-> "duplicate entry", tbl |-> permissions]
        ELSE [err |-> NoErr, tbl |-> Append(permissions, row)]

RepoUpdatePermission(id, e) ==
    IF PermissionsUniqueViolation(e, {id})
    THEN [err |-> "duplicate entry", tbl |-> permissions]
    ELSE [err |-> NoErr, tbl |-> [permissions EXCEPT ![id] = e]]

\* WHERE id IN ? AND deleted_at IS NULL: the matching rows, each once.
GetPermissionsByIDs(ids) ==
    {i \in Range(ids) : i \in DOMAIN permissions /\ ~permissions[i].DeletedAt}

(***************************************************************************)
(* Persistence adapter: menus                                              *)
(***************************************************************************)
GetMenuByID(id) ==
    IF id \in DOMAIN menus /\ ~menus[id].DeletedAt THEN Ptr(id) ELSE Nil

GetMenuBySlug(slug) ==
    LET hits == {i \in DOMAIN menus : menus[i].Slug = slug /\ ~menus[i].DeletedAt}
    IN  IF hits = {} THEN Nil
        ELSE Ptr(CHOOSE i \in hits : \A j \in hits : i <= j)

GetMenus == {i \in DOMAIN menus : ~menus[i].DeletedAt}

\* UNIQUE(slug) of table menus (name is not unique here).
MenusUniqueViolation(e, self) ==
    \E i \in DOMAIN menus \ self : menus[i].Slug = e.Slug

RepoCreateMenu(e) ==
    LET row == [e EXCEPT !.IsActive = GormCreateDefault(e.IsActive, TRUE)]
    IN  IF MenusUniqueViolation(row, {})
        THEN [err |-> "duplicate entry", tbl |-> menus]
        ELSE [err |-> NoErr, tbl |-> Append(menus, row)]

RepoUpdateMenu(id, e) ==
    IF MenusUniqueViolation(e, {id})
    THEN [err |-> "duplicate entry", tbl |-> menus]
    ELSE [err |-> NoErr, tbl |-> [menus EXCEPT ![id] = e]]

GetMenusByIDs(ids) ==
    {i \in Range(ids) : i \in DOMAIN menus /\ ~menus[i].DeletedAt}

\* ORDER BY sort_order ASC of the rows S: every order of S that ascends (rows
\* of equal sort_order come in the order the database picks).
OrderedBySortOrder(S) ==
    {s \in [1..Cardinality(S) -> S] :
        /\ \A i, j \in 1..Cardinality(S) : i # j => s[i] # s[j]
        /\ \A i, j \in 1..Cardinality(S) :
              i < j => menus[s[i]].SortOrder <= menus[s[j]].SortOrder}

MenuChildrenUnfiltered(id) == {c \in DOMAIN menus : menus[c].ParentID = Ptr(id)}

\* Preload("Children", deleted_at IS NULL AND is_active = true)
MenuChildren(id) ==
    {c \in DOMAIN menus :
        /\ menus[c].ParentID = Ptr(id)
        /\ ~menus[c].DeletedAt
        /\ menus[c].IsActive}

\* WHERE parent_id IS NULL AND deleted_at IS NULL AND is_active = true
MenuRoots ==
    {m \in DOMAIN menus :
        /\ menus[m].ParentID = Nil
        /\ ~menus[m].DeletedAt
        /\ menus[m].IsActive}

\* The entities the query can return: the roots in order, each with its
\* preloaded children in order; the children of a child are not loaded.
RepoGetMenuTree ==
    {[i \in DOMAIN r |-> [ID |-> r[i], Children |-> ch[r[i]]]] :
        r \in OrderedBySortOrder(MenuRoots),
        ch \in {f \in [MenuRoots ->
                         UNION {OrderedBySortOrder(MenuChildren(m)) : m \in MenuRoots}] :
                   \A m \in MenuRoots : f[m] \in OrderedBySortOrder(MenuChildren(m))}}

\* MenuEntity.ToMenu of a menu whose Children hold the entities kids.
ToMenu(id, kids) == [ID |-> id, Name |-> menus[id].Name, Children |-> kids]

(***************************************************************************)
(* Persistence adapter: the junction tables.  A replace is two statements, *)
(* a DELETE and then a batch INSERT; an INSERT that violates the UNIQUE    *)
(* pair of its table inserts no row at all.                                *)
(***************************************************************************)
HasDuplicates(ids) == \E i, j \in DOMAIN ids : i # j /\ ids[i] = ids[j]

KeepRolePermissions(tbl, roleID) == tbl

DeleteEveryRolePermission(tbl, roleID) == {}

DeleteRolePermissions(tbl, roleID) == {e \in tbl : e[1] # roleID}

InsertRolePermissions(tbl, roleID, permissionIDs) ==
    LET rows == {<<roleID, permissionIDs[i]>> : i \in DOMAIN permissionIDs}
    IN  IF Len(permissionIDs) = 0 THEN [err |-> NoErr, tbl |-> tbl]
        ELSE IF HasDuplicates(permissionIDs) \/ rows \cap tbl # {}
        THEN [err |-> "duplicate entry", tbl |-> tbl]
        ELSE [err |-> NoErr, tbl |-> tbl \cup rows]

RepoAssignPermissionsToRole(tbl, roleID, permissionIDs) ==
    InsertRolePermissions(DeleteRolePermissions(tbl, roleID), roleID,
                          permissionIDs)

KeepUserRoles(tbl, userID) == tbl

DeleteUserRoles(tbl, userID) == {e \in tbl : e[1] # userID}

InsertUserRoles(tbl, userID, roleIDs) ==
    LET rows == {<<userID, roleIDs[i]>> : i \in DOMAIN roleIDs}
    IN  IF Len(roleIDs) = 0 THEN [err |-> NoErr, tbl |-> tbl]
        ELSE IF HasDuplicates(roleIDs) \/ rows \cap tbl # {}
        THEN [err |-> "duplicate entry", tbl |-> tbl]
        ELSE [err |-> NoErr, tbl |-> tbl \cup rows]

RepoAssignRolesToUser(tbl, userID, roleIDs) ==
    InsertUserRoles(DeleteUserRoles(tbl, userID), userID, roleIDs)

RemoveEveryRoleOfUser(tbl, userID, roleIDs) == {e \in tbl : e[1] # userID}

RepoRemoveRolesFromUser(tbl, userID, roleIDs) ==
    {e \in tbl : ~(e[1] = userID /\ e[2] \in Range(roleIDs))}

DeleteRoleMenus(tbl, roleID) == {e \in tbl : e.RoleID # roleID}

InsertRoleMenus(tbl, roleID, menuPermissions) ==
    LET rows == {[RoleID |-> roleID,
                  MenuID |-> menuPermissions[i].MenuID,
                  CanView |-> GormCreateDefault(menuPermissions[i].CanView, TRUE),
                  CanCreate |-> GormCreateDefault(menuPermissions[i].CanCreate, FALSE),
                  CanEdit |-> GormCreateDefault(menuPermissions[i].CanEdit, FALSE),
                  CanDelete |-> GormCreateDefault(menuPermissions[i].CanDelete, FALSE)]
                 : i \in DOMAIN menuPermissions}
        dup  == \/ \E i, j \in DOMAIN menuPermissions :
                      i # j /\ menuPermissions[i].MenuID = menuPermissions[j].MenuID
                \/ \E e \in tbl, n \in rows :
                      e.RoleID = n.RoleID /\ e.MenuID = n.MenuID
    IN  IF Len(menuPermissions) = 0 THEN [err |-> NoErr, tbl |-> tbl]
        ELSE IF dup THEN [err |-> "duplicate entry", tbl |-> tbl]
        ELSE [err |-> NoErr, tbl |-> tbl \cup rows]

RepoAssignMenusToRole(tbl, roleID, menuPermissions) ==
    InsertRoleMenus(DeleteRoleMenus(tbl, roleID), roleID, menuPermissions)

(***************************************************************************)
(* Persistence adapter: authorization joins                                *)
(***************************************************************************)
\* permissions JOIN role_permissions JOIN user_roles; table roles is not
\* part of the join.
CheckUserHasPermission(userID, resource, action) ==
    \E ur \in user_roles, rp \in role_permissions :
        /\ ur[1] = userID
        /\ rp[1] = ur[2]
        /\ rp[2] \in DOMAIN permissions
        /\ permissions[rp[2]].Resource = resource
        /\ permissions[rp[2]].Action = action
        /\ ~permissions[rp[2]].DeletedAt
        /\ permissions[rp[2]].IsActive

CheckUserHasRole(userID, roleSlug) ==
    \E ur \in user_roles :
        /\ ur[1] = userID
        /\ ur[2] \in DOMAIN roles
        /\ roles[ur[2]].Slug = roleSlug
        /\ ~roles[ur[2]].DeletedAt
        /\ roles[ur[2]].IsActive

\* role_menus JOIN user_roles JOIN menus, the menu active and not deleted,
\* the row's can_view true: the rows (ORDER BY menus.sort_order is left out,
\* a row set is what the callers below read).
GetUserAccessibleMenus(userID) ==
    {e \in role_menus :
        /\ <<userID, e.RoleID>> \in user_roles
        /\ e.MenuID \in DOMAIN menus
        /\ ~menus[e.MenuID].DeletedAt
        /\ menus[e.MenuID].IsActive
        /\ e.CanView}

\* role_menus JOIN user_roles JOIN menus, the menu active and not deleted.
UserMenuRows(userID) ==
    {e \in role_menus :
        /\ <<userID, e.RoleID>> \in user_roles
        /\ e.MenuID \in DOMAIN menus
        /\ ~menus[e.MenuID].DeletedAt
        /\ menus[e.MenuID].IsActive}

\* SELECT DISTINCT role_menus.* ... ORDER BY menus.sort_order ASC.  The ORDER
\* BY column is not in the select list of a DISTINCT query: a MySQL server
\* whose sql_mode has ONLY_FULL_GROUP_BY (the default) rejects the statement
\* with error 3065 whatever the tables hold, another server runs it.  Both
\* outcomes are kept; rows of equal sort_order come in the order the database
\* picks.
RepoGetUserMenus(userID) ==
    {[err |-> "Error 3065", rows |-> <<>>]}
    \cup {[err |-> NoErr, rows |-> s] :
            s \in {t \in [1..Cardinality(UserMenuRows(userID))
                            -> UserMenuRows(userID)] :
                      /\ \A i, j \in DOMAIN t : i # j => t[i] # t[j]
                      /\ \A i, j \in DOMAIN t :
                            i < j => menus[t[i].MenuID].SortOrder
                                        <= menus[t[j].MenuID].SortOrder}}

ToRoleMenu(e) ==
    [RoleID |-> e.RoleID, MenuID |-> e.MenuID, CanView |-> e.CanView,
     CanCreate |-> e.CanCreate, CanEdit |-> e.CanEdit,
     CanDelete |-> e.CanDelete, Menu |-> ToMenu(e.MenuID, <<>>)]

CheckUserPermission(userID, resource, action) ==
    CheckUserHasPermission(userID, resource, action)

CheckUserRole(userID, roleSlug) == CheckUserHasRole(userID, roleSlug)

(***************************************************************************)
(* Service: slug validation                                                *)
(***************************************************************************)
ValidateRoleSlug(slug, excludeID) ==
    LET existingRole == GetRoleBySlug(slug)
    IN  IF existingRole # Nil /\ (excludeID = Nil \/ existingRole # excludeID)
        THEN "role slug already exists" ELSE NoErr

ValidatePermissionSlug(slug, excludeID) ==
    LET existingPermission == GetPermissionBySlug(slug)
    IN  IF existingPermission # Nil
           /\ (excludeID = Nil \/ existingPermission # excludeID)
        THEN "permission slug already exists" ELSE NoErr

ValidateMenuSlug(slug, excludeID) ==
    LET existingMenu == GetMenuBySlug(slug)
    IN  IF existingMenu # Nil /\ (excludeID = Nil \/ existingMenu # excludeID)
        THEN "menu slug already exists" ELSE NoErr

(***************************************************************************)
(* Service: roles                                                          *)
(***************************************************************************)
NewRole(req) ==
    [Name |-> req.Name, Slug |-> req.Slug,
     IsActive |-> (req.IsActive # Nil /\ Deref(req.IsActive)),
     DeletedAt |-> FALSE, DeletedBy |-> Nil]

CreateRoleError(req) ==
    IF ValidateRoleSlug(req.Slug, Nil) # NoErr
    THEN ValidateRoleSlug(req.Slug, Nil)
    ELSE IF RepoCreateRole(NewRole(req)).err # NoErr
    THEN "failed to create role"
    ELSE NoErr

CreateRole(req) ==
    /\ roles' = IF CreateRoleError(req) = NoErr
            THEN RepoCreateRole(NewRole(req)).tbl
            ELSE roles
    /\ last' = Returned("CreateRole", CreateRoleError(req))
    /\ UNCHANGED <<permissions, menus, role_permissions, user_roles,
                   role_menus, pending>>

\* An update that writes the zero value for a field the request leaves out.
OverwrittenRole(id, req) ==
    [Name |-> IF req.Name # Nil THEN Deref(req.Name) ELSE "",
     Slug |-> IF req.Slug # Nil THEN Deref(req.Slug) ELSE roles[id].Slug,
     IsActive |-> req.IsActive # Nil /\ Deref(req.IsActive),
     DeletedAt |-> roles[id].DeletedAt,
     DeletedBy |-> roles[id].DeletedBy]

PatchRole(e, req) ==
    [Name |-> IF req.Name # Nil THEN Deref(req.Name) ELSE e.Name,
     Slug |-> IF req.Slug # Nil THEN Deref(req.Slug) ELSE e.Slug,
     IsActive |-> IF req.IsActive # Nil THEN Deref(req.IsActive)
                  ELSE e.IsActive,
     DeletedAt |-> e.DeletedAt,
     DeletedBy |-> e.DeletedBy]

PatchedRole(id, req) == PatchRole(roles[id], req)

UpdateRoleError(id, req) ==
    IF GetRoleByID(id) = Nil THEN "role not found"
    ELSE IF req.Slug # Nil /\ ValidateRoleSlug(Deref(req.Slug), Ptr(id)) # NoErr
    THEN ValidateRoleSlug(Deref(req.Slug), Ptr(id))
    ELSE IF RepoUpdateRole(id, PatchedRole(id, req)).err # NoErr
    THEN "failed to update role"
    ELSE NoErr

UpdateRole(id, req) ==
    /\ roles' = IF UpdateRoleError(id, req) = NoErr
            THEN RepoUpdateRole(id, PatchedRole(id, req)).tbl
            ELSE roles
    /\ last' = Returned("UpdateRole", UpdateRoleError(id, req))
    /\ UNCHANGED <<permissions, menus, role_permissions, user_roles,
                   role_menus, pending>>

DeleteRoleError(id) ==
    IF GetRoleByID(id) = Nil THEN "role not found"
    ELSE IF RepoUpdateRole(id, [roles[id] EXCEPT !.DeletedAt = TRUE,
                                  !.DeletedBy = Ptr("admin")]).err # NoErr
    THEN "failed to delete role"
    ELSE NoErr

DeleteRole(id) ==
    /\ roles' = IF DeleteRoleError(id) = NoErr
            THEN RepoUpdateRole(id, [roles[id] EXCEPT !.DeletedAt = TRUE,
                                  !.DeletedBy = Ptr("admin")]).tbl
            ELSE roles
    /\ last' = Returned("DeleteRole", DeleteRoleError(id))
    /\ UNCHANGED <<permissions, menus, role_permissions, user_roles,
                   role_menus, pending>>

(***************************************************************************)
(* Service: permissions                                                    *)
(***************************************************************************)
NewPermission(req) ==
    [Name |-> req.Name, Slug |-> req.Slug,
     Resource |-> req.Resource, Action |-> req.Action,
     IsActive |-> (req.IsActive # Nil /\ Deref(req.IsActive)),
     DeletedAt |-> FALSE, DeletedBy |-> Nil]

CreatePermissionError(req) ==
    IF ValidatePermissionSlug(req.Slug, Nil) # NoErr
    THEN ValidatePermissionSlug(req.Slug, Nil)
    ELSE IF RepoCreatePermission(NewPermission(req)).err # NoErr
    THEN "failed to create permission"
    ELSE NoErr

CreatePermission(req) ==
    /\ permissions' = IF CreatePermissionError(req) = NoErr
                  THEN RepoCreatePermission(NewPermission(req)).tbl
                  ELSE permissions
    /\ last' = Returned("CreatePermission", CreatePermissionError(req))
    /\ UNCHANGED <<roles, menus, role_permissions, user_roles, role_menus,
                   pending>>

PatchPermission(e, req) ==
    [Name |-> IF req.Name # Nil THEN Deref(req.Name) ELSE e.Name,
     Slug |-> IF req.Slug # Nil THEN Deref(req.Slug) ELSE e.Slug,
     Resource |-> IF req.Resource # Nil THEN Deref(req.Resource)
                  ELSE e.Resource,
     Action |-> IF req.Action # Nil THEN Deref(req.Action)
                ELSE e.Action,
     IsActive |-> IF req.IsActive # Nil THEN Deref(req.IsActive)
                  ELSE e.IsActive,
     DeletedAt |-> e.DeletedAt,
     DeletedBy |-> e.DeletedBy]

PatchedPermission(id, req) == PatchPermission(permissions[id], req)

UpdatePermissionError(id, req) ==
    IF GetPermissionByID(id) = Nil THEN "permission not found"
    ELSE IF req.Slug # Nil
            /\ ValidatePermissionSlug(Deref(req.Slug), Ptr(id)) # NoErr
    THEN ValidatePermissionSlug(Deref(req.Slug), Ptr(id))
    ELSE IF RepoUpdatePermission(id, PatchedPermission(id, req)).err # NoErr
    THEN "failed to update permission"
    ELSE NoErr

UpdatePermission(id, req) ==
    /\ permissions' = IF UpdatePermissionError(id, req) = NoErr
                  THEN RepoUpdatePermission(id, PatchedPermission(id, req)).tbl
                  ELSE permissions
    /\ last' = Returned("UpdatePermission", UpdatePermissionError(id, req))
    /\ UNCHANGED <<roles, menus, role_permissions, user_roles, role_menus,
                   pending>>

DeletePermissionError(id) ==
    IF GetPermissionByID(id) = Nil THEN "permission not found"
    ELSE IF RepoUpdatePermission(id,
               [permissions[id] EXCEPT !.DeletedAt = TRUE,
                                  !.DeletedBy = Ptr("admin")]).err # NoErr
    THEN "failed to delete permission"
    ELSE NoErr

DeletePermission(id) ==
    /\ permissions' = IF DeletePermissionError(id) = NoErr
                  THEN RepoUpdatePermission(id, [permissions[id] EXCEPT !.DeletedAt = TRUE,
                                  !.DeletedBy = Ptr("admin")]).tbl
                  ELSE permissions
    /\ last' = Returned("DeletePermission", DeletePermissionError(id))
    /\ UNCHANGED <<roles, menus, role_permissions, user_roles, role_menus,
                   pending>>

(***************************************************************************)
(* Service: menus                                                          *)
(***************************************************************************)
NewMenu(req) ==
    [Name |-> req.Name, Slug |-> req.Slug, ParentID |-> req.ParentID,
     SortOrder |-> IF req.SortOrder # Nil THEN Deref(req.SortOrder) ELSE 0,
     IsActive |-> (req.IsActive # Nil /\ Deref(req.IsActive)),
     DeletedAt |-> FALSE, DeletedBy |-> Nil]

CreateMenuError(req) ==
    IF ValidateMenuSlug(req.Slug, Nil) # NoErr
    THEN ValidateMenuSlug(req.Slug, Nil)
    ELSE IF req.ParentID # Nil /\ GetMenuByID(Deref(req.ParentID)) = Nil
    THEN "parent menu not found"
    ELSE IF RepoCreateMenu(NewMenu(req)).err # NoErr
    THEN "failed to create menu"
    ELSE NoErr

CreateMenu(req) ==
    /\ menus' = IF CreateMenuError(req) = NoErr
            THEN RepoCreateMenu(NewMenu(req)).tbl
            ELSE menus
    /\ last' = Returned("CreateMenu", CreateMenuError(req))
    /\ UNCHANGED <<roles, permissions, role_permissions, user_roles,
                   role_menus, pending>>

PatchMenu(e, req) ==
    [Name |-> IF req.Name # Nil THEN Deref(req.Name) ELSE e.Name,
     Slug |-> IF req.Slug # Nil THEN Deref(req.Slug) ELSE e.Slug,
     ParentID |-> IF req.ParentID # Nil THEN req.ParentID
                  ELSE e.ParentID,
     SortOrder |-> IF req.SortOrder # Nil THEN Deref(req.SortOrder)
                   ELSE e.SortOrder,
     IsActive |-> IF req.IsActive # Nil THEN Deref(req.IsActive)
                  ELSE e.IsActive,
     DeletedAt |-> e.DeletedAt,
     DeletedBy |-> e.DeletedBy]

PatchedMenu(id, req) == PatchMenu(menus[id], req)

NeverSelfParent(id, req) == FALSE

IsSelfParent(id, req) == req.ParentID # Nil /\ Deref(req.ParentID) = id

\* The checks run in the order of the code: the target, the slug, the parent
\* (self reference before existence), the write; the first one that fails is
\* the error returned.
UpdateMenuError(id, req) ==
    IF GetMenuByID(id) = Nil THEN "menu not found"
    ELSE IF req.Slug # Nil /\ ValidateMenuSlug(Deref(req.Slug), Ptr(id)) # NoErr
    THEN ValidateMenuSlug(Deref(req.Slug), Ptr(id))
    ELSE IF IsSelfParent(id, req)
    THEN "menu cannot be parent of itself"
    ELSE IF req.ParentID # Nil /\ GetMenuByID(Deref(req.ParentID)) = Nil
    THEN "parent menu not found"
    ELSE IF RepoUpdateMenu(id, PatchedMenu(id, req)).err # NoErr
    THEN "failed to update menu"
    ELSE NoErr

UpdateMenu(id, req) ==
    /\ menus' = IF UpdateMenuError(id, req) = NoErr
            THEN RepoUpdateMenu(id, PatchedMenu(id, req)).tbl
            ELSE menus
    /\ last' = Returned("UpdateMenu", UpdateMenuError(id, req))
    /\ UNCHANGED <<roles, permissions, role_permissions, user_roles,
                   role_menus, pending>>

DeleteMenuError(id) ==
    IF GetMenuByID(id) = Nil THEN "menu not found"
    ELSE IF RepoUpdateMenu(id, [menus[id] EXCEPT !.DeletedAt = TRUE,
                                  !.DeletedBy = Ptr("admin")]).err # NoErr
    THEN "failed to delete menu"
    ELSE NoErr

DeleteMenu(id) ==
    /\ menus' = IF DeleteMenuError(id) = NoErr
            THEN RepoUpdateMenu(id, [menus[id] EXCEPT !.DeletedAt = TRUE,
                                  !.DeletedBy = Ptr("admin")]).tbl
            ELSE menus
    /\ last' = Returned("DeleteMenu", DeleteMenuError(id))
    /\ UNCHANGED <<roles, permissions, role_permissions, user_roles,
                   role_menus, pending>>

\* The trees GetMenuTree can return: each entity through ToMenu, a child
\* with the empty Children it was loaded with.
GetMenuTree ==
    {[i \in DOMAIN t |->
         ToMenu(t[i].ID,
                [j \in DOMAIN t[i].Children |-> ToMenu(t[i].Children[j], <<>>)])] :
        t \in RepoGetMenuTree}

(***************************************************************************)
(* Service: assignments.  <Call>Validation is the error returned before    *)
(* the repository is called; past it the repository's two statements run.  *)
(***************************************************************************)
AssignPermissionsToRoleValidation(roleID, permissionIDs) ==
    IF GetRoleByID(roleID) = Nil THEN "role not found"
    ELSE IF Cardinality(GetPermissionsByIDs(permissionIDs)) # Len(permissionIDs)
    THEN "some permissions not found"
    ELSE NoErr

AssignPermissionsToRoleError(roleID, permissionIDs) ==
    IF AssignPermissionsToRoleValidation(roleID, permissionIDs) # NoErr
    THEN AssignPermissionsToRoleValidation(roleID, permissionIDs)
    ELSE IF RepoAssignPermissionsToRole(role_permissions, roleID,
                                        permissionIDs).err # NoErr
    THEN "failed to assign permissions to role"
    ELSE NoErr

AssignPermissionsToRole(roleID, permissionIDs) ==
    /\ role_permissions' = IF AssignPermissionsToRoleValidation(roleID, permissionIDs) = NoErr
                       THEN RepoAssignPermissionsToRole(role_permissions, roleID, permissionIDs).tbl
                       ELSE role_permissions
    /\ last' = Returned("AssignPermissionsToRole", AssignPermissionsToRoleError(roleID, permissionIDs))
    /\ UNCHANGED <<roles, permissions, menus, user_roles, role_menus, pending>>

MenuIDsOf(menuPermissions) ==
    [i \in DOMAIN menuPermissions |-> menuPermissions[i].MenuID]

AssignMenusToRoleValidation(roleID, menuPermissions) ==
    IF GetRoleByID(roleID) = Nil THEN "role not found"
    ELSE IF Cardinality(GetMenusByIDs(MenuIDsOf(menuPermissions)))
            # Len(menuPermissions)
    THEN "some menus not found"
    ELSE NoErr

AssignMenusToRoleError(roleID, menuPermissions) ==
    IF AssignMenusToRoleValidation(roleID, menuPermissions) # NoErr
    THEN AssignMenusToRoleValidation(roleID, menuPermissions)
    ELSE IF RepoAssignMenusToRole(role_menus, roleID, menuPermissions).err # NoErr
    THEN "failed to assign menus to role"
    ELSE NoErr

AssignMenusToRole(roleID, menuPermissions) ==
    /\ role_menus' = IF AssignMenusToRoleValidation(roleID, menuPermissions) = NoErr
                 THEN RepoAssignMenusToRole(role_menus, roleID, menuPermissions).tbl
                 ELSE role_menus
    /\ last' = Returned("AssignMenusToRole", AssignMenusToRoleError(roleID, menuPermissions))
    /\ UNCHANGED <<roles, permissions, menus, role_permissions, user_roles,
                   pending>>

AssignRolesToUserValidation(userID, roleIDs) ==
    IF \E i \in DOMAIN roleIDs : GetRoleByID(roleIDs[i]) = Nil
    THEN "role with ID not found"
    ELSE NoErr

AssignRolesToUserError(userID, roleIDs) ==
    IF AssignRolesToUserValidation(userID, roleIDs) # NoErr
    THEN AssignRolesToUserValidation(userID, roleIDs)
    ELSE IF RepoAssignRolesToUser(user_roles, userID, roleIDs).err # NoErr
    THEN "failed to assign roles to user"
    ELSE NoErr

AssignRolesToUser(userID, roleIDs) ==
    /\ user_roles' = IF AssignRolesToUserValidation(userID, roleIDs) = NoErr
                 THEN RepoAssignRolesToUser(user_roles, userID, roleIDs).tbl
                 ELSE user_roles
    /\ last' = Returned("AssignRolesToUser", AssignRolesToUserError(userID, roleIDs))
    /\ UNCHANGED <<roles, permissions, menus, role_permissions, role_menus,
                   pending>>

RemoveRolesFromUser(userID, roleIDs) ==
    /\ user_roles' = RepoRemoveRolesFromUser(user_roles, userID, roleIDs)
    /\ last' = Returned("RemoveRolesFromUser", NoErr)
    /\ UNCHANGED <<roles, permissions, menus, role_permissions, role_menus,
                   pending>>

\* The results GetUserMenus can return: the repository's error wrapped, or
\* its rows through ToRoleMenu, in the repository's order.
GetUserMenus(userID) ==
    {IF o.err # NoErr
     THEN [err |-> "failed to get user menus", Data |-> <<>>]
     ELSE [err |-> NoErr, Data |-> [i \in DOMAIN o.rows |-> ToRoleMenu(o.rows[i])]] :
        o \in RepoGetUserMenus(userID)}

(***************************************************************************)
(* The replace calls statement by statement: the DELETE and the INSERT of  *)
(* the repository are two round trips to the database with no transaction  *)
(* around them, so other requests run between them.  `pending` is the call *)
(* that has deleted and not yet inserted, with the rows it found.          *)
(***************************************************************************)
Idle == [kind |-> "idle"]

RolePermissionsOf(roleID) == {e[2] : e \in {x \in role_permissions : x[1] = roleID}}

UserRolesOf(userID) == {e[2] : e \in {x \in user_roles : x[1] = userID}}

AssignPermissionsToRoleDelete(roleID, permissionIDs) ==
    /\ pending = Idle
    /\ IF AssignPermissionsToRoleValidation(roleID, permissionIDs) = NoErr
       THEN /\ role_permissions' = DeleteRolePermissions(role_permissions, roleID)
            /\ pending' = [kind |-> "AssignPermissionsToRole", id |-> roleID,
                           ids |-> permissionIDs,
                           old |-> RolePermissionsOf(roleID)]
            /\ UNCHANGED last
       ELSE /\ last' = Returned("AssignPermissionsToRole",
                          AssignPermissionsToRoleValidation(roleID, permissionIDs))
            /\ UNCHANGED <<role_permissions, pending>>
    /\ UNCHANGED <<roles, permissions, menus, user_roles, role_menus>>

AssignPermissionsToRoleCreate ==
    /\ pending.kind = "AssignPermissionsToRole"
    /\ LET res == InsertRolePermissions(role_permissions, pending.id, pending.ids)
       IN  /\ role_permissions' = res.tbl
           /\ last' = Returned("AssignPermissionsToRole",
                         IF res.err # NoErr
                         THEN "failed to assign permissions to role" ELSE NoErr)
    /\ pending' = Idle
    /\ UNCHANGED <<roles, permissions, menus, user_roles, role_menus>>

AssignRolesToUserDelete(userID, roleIDs) ==
    /\ pending = Idle
    /\ IF AssignRolesToUserValidation(userID, roleIDs) = NoErr
       THEN /\ user_roles' = DeleteUserRoles(user_roles, userID)
            /\ pending' = [kind |-> "AssignRolesToUser", id |-> userID,
                           ids |-> roleIDs, old |-> UserRolesOf(userID)]
            /\ UNCHANGED last
       ELSE /\ last' = Returned("AssignRolesToUser",
                                AssignRolesToUserValidation(userID, roleIDs))
            /\ UNCHANGED <<user_roles, pending>>
    /\ UNCHANGED <<roles, permissions, menus, role_permissions, role_menus>>

AssignRolesToUserCreate ==
    /\ pending.kind = "AssignRolesToUser"
    /\ LET res == InsertUserRoles(user_roles, pending.id, pending.ids)
       IN  /\ user_roles' = res.tbl
           /\ last' = Returned("AssignRolesToUser",
                         IF res.err # NoErr
                         THEN "failed to assign roles to user" ELSE NoErr)
    /\ pending' = Idle
    /\ UNCHANGED <<roles, permissions, menus, role_permissions, role_menus>>

(***************************************************************************)
(* Calls of two requests in parallel, statement by statement.  A handler   *)
(* reads (the record by id, the owner of a slug) and later writes, each a   *)
(* round trip to the database with no transaction and no row lock, so the  *)
(* statements of another request run in between.  `pending` then holds,    *)
(* for each process, the call it is in: the request, the entity it has     *)
(* loaded, and at the end the error it returned.  A process runs one call. *)
(***************************************************************************)
Procs == 1..MaxProcs

InFlight(p) == IF pending.kind = "calls" THEN pending.by[p] ELSE Idle

SetInFlight(p, c) ==
    [kind |-> "calls", by |-> [q \in Procs |-> IF q = p THEN c ELSE InFlight(q)]]

Done(c, err) == [kind |-> "done", call |-> c, err |-> err]

CreateRoleValidate(p, req) ==
    /\ pending.kind \in {"idle", "calls"} /\ InFlight(p) = Idle
    /\ pending' = SetInFlight(p,
          IF ValidateRoleSlug(req.Slug, Nil) # NoErr
          THEN Done([op |-> "CreateRole", req |-> req],
                    ValidateRoleSlug(req.Slug, Nil))
          ELSE [kind |-> "CreateRole", op |-> "CreateRole", req |-> req])
    /\ UNCHANGED <<roles, permissions, menus, role_permissions, user_roles,
                   role_menus, last>>

CreateRoleWrite(p) ==
    /\ InFlight(p).kind = "CreateRole"
    /\ LET c == InFlight(p)
           res == RepoCreateRole(NewRole(c.req))
       IN  /\ roles' = res.tbl
           /\ pending' = SetInFlight(p,
                 Done([op |-> c.op, req |-> c.req],
                      IF res.err # NoErr THEN "failed to create role" ELSE NoErr))
    /\ UNCHANGED <<permissions, menus, role_permissions, user_roles,
                   role_menus, last>>

UpdateRoleLoad(p, id, req) ==
    /\ pending.kind \in {"idle", "calls"} /\ InFlight(p) = Idle
    /\ pending' = SetInFlight(p,
          IF GetRoleByID(id) = Nil
          THEN Done([op |-> "UpdateRole", id |-> id, req |-> req],
                    "role not found")
          ELSE [kind |-> "UpdateRole", op |-> "UpdateRole", id |-> id,
                req |-> req, role |-> roles[id]])
    /\ UNCHANGED <<roles, permissions, menus, role_permissions, user_roles,
                   role_menus, last>>

UpdateRoleValidate(p) ==
    /\ InFlight(p).kind = "UpdateRole"
    /\ LET c == InFlight(p)
           err == IF c.req.Slug # Nil
                  THEN ValidateRoleSlug(Deref(c.req.Slug), Ptr(c.id))
                  ELSE NoErr
       IN  pending' = SetInFlight(p,
              IF err # NoErr
              THEN Done([op |-> c.op, id |-> c.id, req |-> c.req,
                         role |-> c.role], err)
              ELSE [c EXCEPT !.kind = "UpdateRoleSave"])
    /\ UNCHANGED <<roles, permissions, menus, role_permissions, user_roles,
                   role_menus, last>>

UpdateRoleSave(p) ==
    /\ InFlight(p).kind = "UpdateRoleSave"
    /\ LET c == InFlight(p)
           res == RepoUpdateRole(c.id, PatchRole(c.role, c.req))
       IN  /\ roles' = res.tbl
           /\ pending' = SetInFlight(p,
                 Done([op |-> c.op, id |-> c.id, req |-> c.req,
                       role |-> c.role],
                      IF res.err # NoErr THEN "failed to update role" ELSE NoErr))
    /\ UNCHANGED <<permissions, menus, role_permissions, user_roles,
                   role_menus, last>>

DeleteRoleLoad(p, id) ==
    /\ pending.kind \in {"idle", "calls"} /\ InFlight(p) = Idle
    /\ pending' = SetInFlight(p,
          IF GetRoleByID(id) = Nil
          THEN Done([op |-> "DeleteRole", id |-> id], "role not found")
          ELSE [kind |-> "DeleteRole", op |-> "DeleteRole", id |-> id,
                role |-> roles[id]])
    /\ UNCHANGED <<roles, permissions, menus, role_permissions, user_roles,
                   role_menus, last>>

DeleteRoleSave(p) ==
    /\ InFlight(p).kind = "DeleteRole"
    /\ LET c == InFlight(p)
           res == RepoUpdateRole(c.id, [c.role EXCEPT !.DeletedAt = TRUE,
                                                      !.DeletedBy = Ptr("admin")])
       IN  /\ roles' = res.tbl
           /\ pending' = SetInFlight(p,
                 Done([op |-> c.op, id |-> c.id],
                      IF res.err # NoErr THEN "failed to delete role" ELSE NoErr))
    /\ UNCHANGED <<permissions, menus, role_permissions, user_roles,
                   role_menus, last>>

CreatePermissionValidate(p, req) ==
    /\ pending.kind \in {"idle", "calls"} /\ InFlight(p) = Idle
    /\ pending' = SetInFlight(p,
          IF ValidatePermissionSlug(req.Slug, Nil) # NoErr
          THEN Done([op |-> "CreatePermission", req |-> req],
                    ValidatePermissionSlug(req.Slug, Nil))
          ELSE [kind |-> "CreatePermission", op |-> "CreatePermission", req |-> req])
    /\ UNCHANGED <<roles, permissions, menus, role_permissions, user_roles,
                   role_menus, last>>

CreatePermissionWrite(p) ==
    /\ InFlight(p).kind = "CreatePermission"
    /\ LET c == InFlight(p)
           res == RepoCreatePermission(NewPermission(c.req))
       IN  /\ permissions' = res.tbl
           /\ pending' = SetInFlight(p,
                 Done([op |-> c.op, req |-> c.req],
                      IF res.err # NoErr THEN "failed to create permission" ELSE NoErr))
    /\ UNCHANGED <<roles, menus, role_permissions, user_roles,
                   role_menus, last>>

UpdatePermissionLoad(p, id, req) ==
    /\ pending.kind \in {"idle", "calls"} /\ InFlight(p) = Idle
    /\ pending' = SetInFlight(p,
          IF GetPermissionByID(id) = Nil
          THEN Done([op |-> "UpdatePermission", id |-> id, req |-> req],
                    "permission not found")
          ELSE [kind |-> "UpdatePermission", op |-> "UpdatePermission", id |-> id,
                req |-> req, permission |-> permissions[id]])
    /\ UNCHANGED <<roles, permissions, menus, role_permissions, user_roles,
                   role_menus, last>>

UpdatePermissionValidate(p) ==
    /\ InFlight(p).kind = "UpdatePermission"
    /\ LET c == InFlight(p)
           err == IF c.req.Slug # Nil
                  THEN ValidatePermissionSlug(Deref(c.req.Slug), Ptr(c.id))
                  ELSE NoErr
       IN  pending' = SetInFlight(p,
              IF err # NoErr
              THEN Done([op |-> c.op, id |-> c.id, req |-> c.req,
                         permission |-> c.permission], err)
              ELSE [c EXCEPT !.kind = "UpdatePermissionSave"])
    /\ UNCHANGED <<roles, permissions, menus, role_permissions, user_roles,
                   role_menus, last>>

UpdatePermissionSave(p) ==
    /\ InFlight(p).kind = "UpdatePermissionSave"
    /\ LET c == InFlight(p)
           res == RepoUpdatePermission(c.id, PatchPermission(c.permission, c.req))
       IN  /\ permissions' = res.tbl
           /\ pending' = SetInFlight(p,
                 Done([op |-> c.op, id |-> c.id, req |-> c.req,
                       permission |-> c.permission],
                      IF res.err # NoErr THEN "failed to update permission" ELSE NoErr))
    /\ UNCHANGED <<roles, menus, role_permissions, user_roles,
                   role_menus, last>>

DeletePermissionLoad(p, id) ==
    /\ pending.kind \in {"idle", "calls"} /\ InFlight(p) = Idle
    /\ pending' = SetInFlight(p,
          IF GetPermissionByID(id) = Nil
          THEN Done([op |-> "DeletePermission", id |-> id], "permission not found")
          ELSE [kind |-> "DeletePermission", op |-> "DeletePermission", id |-> id,
                permission |-> permissions[id]])
    /\ UNCHANGED <<roles, permissions, menus, role_permissions, user_roles,
                   role_menus, last>>

DeletePermissionSave(p) ==
    /\ InFlight(p).kind = "DeletePermission"
    /\ LET c == InFlight(p)
           res == RepoUpdatePermission(c.id, [c.permission EXCEPT !.DeletedAt = TRUE,
                                                      !.DeletedBy = Ptr("admin")])
       IN  /\ permissions' = res.tbl
           /\ pending' = SetInFlight(p,
                 Done([op |-> c.op, id |-> c.id],
                      IF res.err # NoErr THEN "failed to delete permission" ELSE NoErr))
    /\ UNCHANGED <<roles, menus, role_permissions, user_roles,
                   role_menus, last>>

CreateMenuValidate(p, req) ==
    /\ pending.kind \in {"idle", "calls"} /\ InFlight(p) = Idle
    /\ pending' = SetInFlight(p,
          IF ValidateMenuSlug(req.Slug, Nil) # NoErr
          THEN Done([op |-> "CreateMenu", req |-> req],
                    ValidateMenuSlug(req.Slug, Nil))
          ELSE [kind |-> "CreateMenuParent", op |-> "CreateMenu", req |-> req])
    /\ UNCHANGED <<roles, permissions, menus, role_permissions, user_roles,
                   role_menus, last>>

CreateMenuParent(p) ==
    /\ InFlight(p).kind = "CreateMenuParent"
    /\ LET c == InFlight(p)
       IN  pending' = SetInFlight(p,
              IF c.req.ParentID # Nil /\ GetMenuByID(Deref(c.req.ParentID)) = Nil
              THEN Done([op |-> c.op, req |-> c.req], "parent menu not found")
              ELSE [c EXCEPT !.kind = "CreateMenu"])
    /\ UNCHANGED <<roles, permissions, menus, role_permissions, user_roles,
                   role_menus, last>>

CreateMenuWrite(p) ==
    /\ InFlight(p).kind = "CreateMenu"
    /\ LET c == InFlight(p)
           res == RepoCreateMenu(NewMenu(c.req))
       IN  /\ menus' = res.tbl
           /\ pending' = SetInFlight(p,
                 Done([op |-> c.op, req |-> c.req],
                      IF res.err # NoErr THEN "failed to create menu" ELSE NoErr))
    /\ UNCHANGED <<roles, permissions, role_permissions, user_roles,
                   role_menus, last>>

UpdateMenuLoad(p, id, req) ==
    /\ pending.kind \in {"idle", "calls"} /\ InFlight(p) = Idle
    /\ pending' = SetInFlight(p,
          IF GetMenuByID(id) = Nil
          THEN Done([op |-> "UpdateMenu", id |-> id, req |-> req],
                    "menu not found")
          ELSE [kind |-> "UpdateMenu", op |-> "UpdateMenu", id |-> id,
                req |-> req, menu |-> menus[id]])
    /\ UNCHANGED <<roles, permissions, menus, role_permissions, user_roles,
                   role_menus, last>>

UpdateMenuValidate(p) ==
    /\ InFlight(p).kind = "UpdateMenu"
    /\ LET c == InFlight(p)
           err == IF c.req.Slug # Nil
                  THEN ValidateMenuSlug(Deref(c.req.Slug), Ptr(c.id))
                  ELSE NoErr
       IN  pending' = SetInFlight(p,
              IF err # NoErr
              THEN Done([op |-> c.op, id |-> c.id, req |-> c.req,
                         menu |-> c.menu], err)
              ELSE [c EXCEPT !.kind = "UpdateMenuParent"])
    /\ UNCHANGED <<roles, permissions, menus, role_permissions, user_roles,
                   role_menus, last>>

UpdateMenuParent(p) ==
    /\ InFlight(p).kind = "UpdateMenuParent"
    /\ LET c == InFlight(p)
           err == IF IsSelfParent(c.id, c.req)
                  THEN "menu cannot be parent of itself"
                  ELSE IF c.req.ParentID # Nil
                          /\ GetMenuByID(Deref(c.req.ParentID)) = Nil
                  THEN "parent menu not found"
                  ELSE NoErr
       IN  pending' = SetInFlight(p,
              IF err # NoErr
              THEN Done([op |-> c.op, id |-> c.id, req |-> c.req,
                         menu |-> c.menu], err)
              ELSE [c EXCEPT !.kind = "UpdateMenuSave"])
    /\ UNCHANGED <<roles, permissions, menus, role_permissions, user_roles,
                   role_menus, last>>

UpdateMenuSave(p) ==
    /\ InFlight(p).kind = "UpdateMenuSave"
    /\ LET c == InFlight(p)
           res == RepoUpdateMenu(c.id, PatchMenu(c.menu, c.req))
       IN  /\ menus' = res.tbl
           /\ pending' = SetInFlight(p,
                 Done([op |-> c.op, id |-> c.id, req |-> c.req,
                       menu |-> c.menu],
                      IF res.err # NoErr THEN "failed to update menu" ELSE NoErr))
    /\ UNCHANGED <<roles, permissions, role_permissions, user_roles,
                   role_menus, last>>

DeleteMenuLoad(p, id) ==
    /\ pending.kind \in {"idle", "calls"} /\ InFlight(p) = Idle
    /\ pending' = SetInFlight(p,
          IF GetMenuByID(id) = Nil
          THEN Done([op |-> "DeleteMenu", id |-> id], "menu not found")
          ELSE [kind |-> "DeleteMenu", op |-> "DeleteMenu", id |-> id,
                menu |-> menus[id]])
    /\ UNCHANGED <<roles, permissions, menus, role_permissions, user_roles,
                   role_menus, last>>

DeleteMenuSave(p) ==
    /\ InFlight(p).kind = "DeleteMenu"
    /\ LET c == InFlight(p)
           res == RepoUpdateMenu(c.id, [c.menu EXCEPT !.DeletedAt = TRUE,
                                                      !.DeletedBy = Ptr("admin")])
       IN  /\ menus' = res.tbl
           /\ pending' = SetInFlight(p,
                 Done([op |-> c.op, id |-> c.id],
                      IF res.err # NoErr THEN "failed to delete menu" ELSE NoErr))
    /\ UNCHANGED <<roles, permissions, role_permissions, user_roles,
                   role_menus, last>>

(***************************************************************************)
(* Initial state: empty tables, no call in flight                          *)
(***************************************************************************)
Init ==
    /\ roles = <<>>
    /\ permissions = <<>>
    /\ menus = <<>>
    /\ role_permissions = {}
    /\ user_roles = {}
    /\ role_menus = {}
    /\ pending = Idle
    /\ last = Returned("init", NoErr)

(***************************************************************************)
(* Requests                                                                *)
(***************************************************************************)
OptBool == {Nil, Ptr(TRUE), Ptr(FALSE)}

RoleIDs == 1..MaxRoles

PermissionIDs == 1..MaxPermissions

MenuIDs == 1..MaxMenus

Users == {"u1", "u2"}

Resources == {"users", "roles"}

Actions == {"create", "delete"}

RoleSlugs == {"admin", "teacher"}

PermissionSlugs == {"create-users", "delete-users"}

MenuSlugs == {"dashboard", "users"}

CreateRoleRequests ==
    {[Name |-> "Admin", Slug |-> "admin", IsActive |-> a] : a \in OptBool}
    \cup {[Name |-> "Teacher", Slug |-> "teacher", IsActive |-> a] : a \in OptBool}

SetRoleActive == {[Name |-> Nil, Slug |-> Nil, IsActive |-> Ptr(b)] : b \in BOOLEAN}

CreatePermissionRequests ==
    {[Name |-> "Create Users", Slug |-> "create-users", Resource |-> "users",
      Action |-> "create", IsActive |-> a] : a \in OptBool}
    \cup {[Name |-> "Delete Users", Slug |-> "delete-users", Resource |-> "users",
           Action |-> "delete", IsActive |-> a] : a \in OptBool}

SetPermissionActive ==
    {[Name |-> Nil, Slug |-> Nil, Resource |-> Nil, Action |-> Nil,
      IsActive |-> Ptr(b)] : b \in BOOLEAN}

\* A third permission, on another resource.
GrantPermissionRequests ==
    CreatePermissionRequests
    \cup {[Name |-> "Create Roles", Slug |-> "create-roles", Resource |-> "roles",
           Action |-> "create", IsActive |-> a] : a \in OptBool}

\* Every name with every slug: two requests may share one and not the other.
NamedRoleRequests ==
    {[Name |-> n, Slug |-> s, IsActive |-> Nil] :
        n \in {"Admin", "Teacher"}, s \in RoleSlugs}

NamedPermissionRequests ==
    {[Name |-> n, Slug |-> s, Resource |-> "users", Action |-> "create",
      IsActive |-> Nil] :
        n \in {"Create Users", "Delete Users"}, s \in PermissionSlugs}

\* The name of a menu is not unique: one name with every slug.
NamedMenuRequests ==
    {[Name |-> "Dashboard", Slug |-> s, ParentID |-> Nil, SortOrder |-> Nil,
      IsActive |-> Nil] : s \in MenuSlugs}

CreateMenuRequests ==
    {[Name |-> "Menu", Slug |-> s, ParentID |-> p, SortOrder |-> Nil,
      IsActive |-> Nil] : s \in MenuSlugs, p \in {Nil} \cup {Ptr(i) : i \in MenuIDs}}

UpdateMenuRequests ==
    {[Name |-> Nil, Slug |-> s, ParentID |-> p, SortOrder |-> Nil,
      IsActive |-> a] :
        s \in {Nil} \cup {Ptr(x) : x \in MenuSlugs},
        p \in {Nil} \cup {Ptr(i) : i \in MenuIDs},
        a \in {Nil, Ptr(FALSE)}}

\* Entries of AssignRoleMenusRequest: view only, nothing, everything, and
\* create and delete without view.
MenuPermissionRequests ==
    {[MenuID |-> m, CanView |-> f[1], CanCreate |-> f[2], CanEdit |-> f[3],
      CanDelete |-> f[4]] :
        m \in MenuIDs,
        f \in {<<TRUE, FALSE, FALSE, FALSE>>, <<FALSE, FALSE, FALSE, FALSE>>,
               <<TRUE, TRUE, TRUE, TRUE>>, <<FALSE, TRUE, FALSE, TRUE>>}}

UpdateRoleRequests ==
    {[Name |-> n, Slug |-> s, IsActive |-> a] :
        n \in {Nil, Ptr("Admin"), Ptr("Manager")},
        s \in {Nil} \cup {Ptr(x) : x \in RoleSlugs},
        a \in OptBool}

UpdatePermissionRequests ==
    {[Name |-> n, Slug |-> s, Resource |-> r, Action |-> Nil, IsActive |-> a] :
        n \in {Nil, Ptr("Manage Users")},
        s \in {Nil} \cup {Ptr(x) : x \in PermissionSlugs},
        r \in {Nil, Ptr("roles")},
        a \in {Nil, Ptr(FALSE)}}

CrudMenuRequests ==
    {[Name |-> "Menu", Slug |-> s, ParentID |-> p, SortOrder |-> Nil,
      IsActive |-> a] :
        s \in MenuSlugs, p \in {Nil, Ptr(1)}, a \in OptBool}

CrudUpdateMenuRequests ==
    {[Name |-> n, Slug |-> s, ParentID |-> p, SortOrder |-> o,
      IsActive |-> a] :
        n \in {Nil, Ptr("Home")},
        s \in {Nil} \cup {Ptr(x) : x \in MenuSlugs},
        p \in {Nil} \cup {Ptr(i) : i \in MenuIDs},
        o \in {Nil, Ptr(1)},
        a \in {Nil, Ptr(FALSE)}}

TreeMenuIDs == 1..MaxTreeMenus

\* Three menus, as roots or under a parent, at sort_order 0 (absent) or 1.
TreeMenuRequests ==
    {[Name |-> n[1], Slug |-> n[2], ParentID |-> p, SortOrder |-> o,
      IsActive |-> Nil] :
        n \in {<<"Dashboard", "dashboard">>, <<"Sub", "sub">>,
               <<"Reports", "reports">>},
        p \in {Nil} \cup {Ptr(i) : i \in TreeMenuIDs},
        o \in {Nil, Ptr(1)}}

SetMenuActive ==
    {[Name |-> Nil, Slug |-> Nil, ParentID |-> Nil, SortOrder |-> Nil,
      IsActive |-> Ptr(b)] : b \in BOOLEAN}

(***************************************************************************)
(* Authorization: roles, a permission, their grants and one user, with     *)
(* deactivation and deletion; every call is one step.                      *)
(***************************************************************************)
Next ==
    \/ \E req \in CreateRoleRequests : Len(roles) < MaxRoles /\ CreateRole(req)
    \/ \E id \in RoleIDs, req \in SetRoleActive : UpdateRole(id, req)
    \/ \E id \in RoleIDs : DeleteRole(id)
    \/ \E req \in CreatePermissionRequests :
          Len(permissions) < MaxAuthzPermissions /\ CreatePermission(req)
    \/ \E id \in PermissionIDs, req \in SetPermissionActive :
          UpdatePermission(id, req)
    \/ \E id \in PermissionIDs : DeletePermission(id)
    \/ \E id \in RoleIDs, ids \in SeqsUpTo(PermissionIDs, MaxIDs) :
          AssignPermissionsToRole(id, ids)
    \/ \E ids \in SeqsUpTo(RoleIDs, MaxIDs) : AssignRolesToUser("u1", ids)

Spec == Init /\ [][Next]_vars

(***************************************************************************)
(* Granting: roles and permissions are created and assigned, never updated *)
(* or deleted; three permissions.                                          *)
(***************************************************************************)
GrantNext ==
    \/ \E req \in CreateRoleRequests :
          Len(roles) < MaxGrantRoles /\ CreateRole(req)
    \/ \E req \in GrantPermissionRequests :
          Len(permissions) < MaxGrantPermissions /\ CreatePermission(req)
    \/ \E id \in 1..MaxGrantRoles,
          ids \in SeqsUpTo(1..MaxGrantPermissions, MaxIDs) :
          AssignPermissionsToRole(id, ids)
    \/ \E ids \in SeqsUpTo(1..MaxGrantRoles, MaxIDs) :
          AssignRolesToUser("u1", ids)

GrantSpec == Init /\ [][GrantNext]_vars

(***************************************************************************)
(* Role membership of two users                                            *)
(***************************************************************************)
UserRoleNext ==
    \/ \E req \in CreateRoleRequests : Len(roles) < MaxRoles /\ CreateRole(req)
    \/ \E id \in RoleIDs, req \in SetRoleActive : UpdateRole(id, req)
    \/ \E id \in RoleIDs : DeleteRole(id)
    \/ \E u \in Users, ids \in SeqsUpTo(RoleIDs, MaxIDs) :
          AssignRolesToUser(u, ids)
    \/ \E u \in Users, ids \in SeqsUpTo(RoleIDs, MaxIDs) :
          RemoveRolesFromUser(u, ids)

UserRoleSpec == Init /\ [][UserRoleNext]_vars

(***************************************************************************)
(* Names and slugs of the three kinds of record                            *)
(***************************************************************************)
SlugNext ==
    \/ \E req \in NamedRoleRequests : Len(roles) < MaxRoles /\ CreateRole(req)
    \/ \E id \in RoleIDs : DeleteRole(id)
    \/ \E req \in NamedPermissionRequests :
          Len(permissions) < MaxPermissions /\ CreatePermission(req)
    \/ \E id \in PermissionIDs : DeletePermission(id)
    \/ \E req \in NamedMenuRequests : Len(menus) < MaxMenus /\ CreateMenu(req)
    \/ \E id \in MenuIDs : DeleteMenu(id)

SlugSpec == Init /\ [][SlugNext]_vars

(***************************************************************************)
(* The menu tree                                                           *)
(***************************************************************************)
MenuNext ==
    \/ \E req \in CreateMenuRequests : Len(menus) < MaxMenus /\ CreateMenu(req)
    \/ \E id \in MenuIDs, req \in UpdateMenuRequests : UpdateMenu(id, req)
    \/ \E id \in MenuIDs : DeleteMenu(id)

MenuSpec == Init /\ [][MenuNext]_vars

(***************************************************************************)
(* Menus of a role: roles and menus are created, menus are granted to      *)
(* roles with their four flags, roles are given to one user.               *)
(***************************************************************************)
RoleMenuNext ==
    \/ \E req \in CreateRoleRequests : Len(roles) < MaxRoles /\ CreateRole(req)
    \/ \E req \in NamedMenuRequests : Len(menus) < MaxMenus /\ CreateMenu(req)
    \/ \E id \in RoleIDs, entries \in SeqsUpTo(MenuPermissionRequests, MaxEntries) :
          AssignMenusToRole(id, entries)
    \/ \E ids \in SeqsUpTo(RoleIDs, 1) : AssignRolesToUser("u1", ids)

RoleMenuSpec == Init /\ [][RoleMenuNext]_vars

(***************************************************************************)
(* Menus of a user: two roles grant menus of different sort_order, one     *)
(* user holds up to both roles, menus are deactivated and deleted.         *)
(***************************************************************************)
UserMenuRoleRequests ==
    {[Name |-> "Admin", Slug |-> "admin", IsActive |-> Nil],
     [Name |-> "Teacher", Slug |-> "teacher", IsActive |-> Nil]}

SortedMenuRequests ==
    {[Name |-> "Dashboard", Slug |-> "dashboard", ParentID |-> Nil,
      SortOrder |-> Nil, IsActive |-> Nil],
     [Name |-> "Users", Slug |-> "users", ParentID |-> Nil,
      SortOrder |-> Ptr(1), IsActive |-> Nil]}

UserMenuGrants ==
    {[MenuID |-> m, CanView |-> TRUE, CanCreate |-> c, CanEdit |-> c,
      CanDelete |-> c] : m \in MenuIDs, c \in BOOLEAN}

UserMenuNext ==
    \/ \E req \in UserMenuRoleRequests :
          Len(roles) < MaxRoles /\ CreateRole(req)
    \/ \E req \in SortedMenuRequests : Len(menus) < MaxMenus /\ CreateMenu(req)
    \/ \E id \in MenuIDs, req \in SetMenuActive : UpdateMenu(id, req)
    \/ \E id \in MenuIDs : DeleteMenu(id)
    \/ \E id \in RoleIDs,
          entries \in SeqsUpTo(UserMenuGrants, MaxUserMenuEntries) :
          AssignMenusToRole(id, entries)
    \/ \E ids \in SeqsUpTo(RoleIDs, MaxGrantRoles) : AssignRolesToUser("u1", ids)

UserMenuSpec == Init /\ [][UserMenuNext]_vars

(***************************************************************************)
(* The menu tree over three menus: created, deactivated, deleted.          *)
(***************************************************************************)
TreeNext ==
    \/ \E req \in TreeMenuRequests :
          Len(menus) < MaxTreeMenus /\ CreateMenu(req)
    \/ \E id \in TreeMenuIDs, req \in SetMenuActive : UpdateMenu(id, req)
    \/ \E id \in TreeMenuIDs : DeleteMenu(id)

TreeSpec == Init /\ [][TreeNext]_vars

(***************************************************************************)
(* Records of one kind: created, updated field by field, deleted.  The     *)
(* three kinds share no table, so a behaviour works on one kind.           *)
(***************************************************************************)
OnlyRoles == permissions = <<>> /\ menus = <<>>

OnlyPermissions == roles = <<>> /\ menus = <<>>

OnlyMenus == roles = <<>> /\ permissions = <<>>

CrudNext ==
    \/ \E req \in CreateRoleRequests :
          OnlyRoles /\ Len(roles) < MaxRoles /\ CreateRole(req)
    \/ \E id \in RoleIDs, req \in UpdateRoleRequests :
          OnlyRoles /\ UpdateRole(id, req)
    \/ \E id \in RoleIDs : OnlyRoles /\ DeleteRole(id)
    \/ \E req \in CreatePermissionRequests :
          OnlyPermissions /\ Len(permissions) < MaxPermissions
                          /\ CreatePermission(req)
    \/ \E id \in PermissionIDs, req \in UpdatePermissionRequests :
          OnlyPermissions /\ UpdatePermission(id, req)
    \/ \E id \in PermissionIDs : OnlyPermissions /\ DeletePermission(id)
    \/ \E req \in CrudMenuRequests :
          OnlyMenus /\ Len(menus) < MaxMenus /\ CreateMenu(req)
    \/ \E id \in MenuIDs, req \in CrudUpdateMenuRequests :
          OnlyMenus /\ UpdateMenu(id, req)
    \/ \E id \in MenuIDs : OnlyMenus /\ DeleteMenu(id)

CrudSpec == Init /\ [][CrudNext]_vars

(***************************************************************************)
(* Requests in parallel: a replace call is two steps, and every other call *)
(* (one statement that writes) can run between them.                       *)
(***************************************************************************)
ConcNext ==
    \/ \E req \in CreateRoleRequests : Len(roles) < MaxRoles /\ CreateRole(req)
    \/ \E req \in CreatePermissionRequests :
          Len(permissions) < MaxPermissions /\ CreatePermission(req)
    \/ \E id \in RoleIDs, ids \in SeqsUpTo(PermissionIDs, MaxIDs) :
          AssignPermissionsToRoleDelete(id, ids)
    \/ AssignPermissionsToRoleCreate
    \/ \E ids \in SeqsUpTo(RoleIDs, MaxIDs) : AssignRolesToUserDelete("u1", ids)
    \/ AssignRolesToUserCreate

ConcSpec == Init /\ [][ConcNext]_vars

(***************************************************************************)
(* Two calls on roles in parallel: rows are created and deleted one call   *)
(* at a time, then each of two processes runs one create, update or delete *)
(* statement by statement.                                                 *)
(***************************************************************************)
ConcUpdateRoleRequests ==
    {[Name |-> Ptr("Manager"), Slug |-> Nil, IsActive |-> Nil],
     [Name |-> Nil, Slug |-> Nil, IsActive |-> Ptr(FALSE)]}
    \cup {[Name |-> Nil, Slug |-> Ptr(s), IsActive |-> Nil] : s \in RoleSlugs}

ConcUpdatePermissionRequests ==
    {[Name |-> Ptr("Manage Users"), Slug |-> Nil, Resource |-> Nil,
      Action |-> Nil, IsActive |-> Nil],
     [Name |-> Nil, Slug |-> Nil, Resource |-> Ptr("roles"), Action |-> Nil,
      IsActive |-> Nil]}
    \cup {[Name |-> Nil, Slug |-> Ptr(s), Resource |-> Nil, Action |-> Nil,
            IsActive |-> Nil] : s \in PermissionSlugs}

ConcMenuRequests ==
    {[Name |-> "Menu", Slug |-> s, ParentID |-> p, SortOrder |-> Nil,
      IsActive |-> Nil] : s \in MenuSlugs, p \in {Nil, Ptr(1)}}

ConcUpdateMenuRequests ==
    {[Name |-> Ptr("Home"), Slug |-> Nil, ParentID |-> Nil, SortOrder |-> Nil,
      IsActive |-> Nil],
     [Name |-> Nil, Slug |-> Nil, ParentID |-> Nil, SortOrder |-> Ptr(1),
      IsActive |-> Nil]}
    \cup {[Name |-> Nil, Slug |-> Ptr(s), ParentID |-> Nil, SortOrder |-> Nil,
            IsActive |-> Nil] : s \in MenuSlugs}
    \cup {[Name |-> Nil, Slug |-> Nil, ParentID |-> Ptr(i), SortOrder |-> Nil,
            IsActive |-> Nil] : i \in MenuIDs}

ConcCrudNext ==
    \/ \E req \in NamedRoleRequests :
          OnlyRoles /\ pending = Idle /\ Len(roles) < MaxRoles /\ CreateRole(req)
    \/ \E id \in RoleIDs :
          OnlyRoles /\ pending = Idle /\ DeleteRole(id)
    \/ \E p \in Procs, req \in NamedRoleRequests :
          OnlyRoles /\ CreateRoleValidate(p, req)
    \/ \E p \in Procs :
          OnlyRoles /\ CreateRoleWrite(p)
    \/ \E p \in Procs, id \in RoleIDs, req \in ConcUpdateRoleRequests :
          OnlyRoles /\ UpdateRoleLoad(p, id, req)
    \/ \E p \in Procs :
          OnlyRoles /\ UpdateRoleValidate(p)
    \/ \E p \in Procs :
          OnlyRoles /\ UpdateRoleSave(p)
    \/ \E p \in Procs, id \in RoleIDs :
          OnlyRoles /\ DeleteRoleLoad(p, id)
    \/ \E p \in Procs :
          OnlyRoles /\ DeleteRoleSave(p)
    \/ \E req \in NamedPermissionRequests :
          OnlyPermissions /\ pending = Idle /\ Len(permissions) < MaxPermissions /\ CreatePermission(req)
    \/ \E id \in PermissionIDs :
          OnlyPermissions /\ pending = Idle /\ DeletePermission(id)
    \/ \E p \in Procs, req \in NamedPermissionRequests :
          OnlyPermissions /\ CreatePermissionValidate(p, req)
    \/ \E p \in Procs :
          OnlyPermissions /\ CreatePermissionWrite(p)
    \/ \E p \in Procs, id \in PermissionIDs, req \in ConcUpdatePermissionRequests :
          OnlyPermissions /\ UpdatePermissionLoad(p, id, req)
    \/ \E p \in Procs :
          OnlyPermissions /\ UpdatePermissionValidate(p)
    \/ \E p \in Procs :
          OnlyPermissions /\ UpdatePermissionSave(p)
    \/ \E p \in Procs, id \in PermissionIDs :
          OnlyPermissions /\ DeletePermissionLoad(p, id)
    \/ \E p \in Procs :
          OnlyPermissions /\ DeletePermissionSave(p)
    \/ \E req \in ConcMenuRequests :
          OnlyMenus /\ pending = Idle /\ Len(menus) < MaxMenus /\ CreateMenu(req)
    \/ \E id \in MenuIDs :
          OnlyMenus /\ pending = Idle /\ DeleteMenu(id)
    \/ \E p \in Procs, req \in ConcMenuRequests :
          OnlyMenus /\ CreateMenuValidate(p, req)
    \/ \E p \in Procs :
          OnlyMenus /\ CreateMenuParent(p)
    \/ \E p \in Procs :
          OnlyMenus /\ CreateMenuWrite(p)
    \/ \E p \in Procs, id \in MenuIDs, req \in ConcUpdateMenuRequests :
          OnlyMenus /\ UpdateMenuLoad(p, id, req)
    \/ \E p \in Procs :
          OnlyMenus /\ UpdateMenuValidate(p)
    \/ \E p \in Procs :
          OnlyMenus /\ UpdateMenuParent(p)
    \/ \E p \in Procs :
          OnlyMenus /\ UpdateMenuSave(p)
    \/ \E p \in Procs, id \in MenuIDs :
          OnlyMenus /\ DeleteMenuLoad(p, id)
    \/ \E p \in Procs :
          OnlyMenus /\ DeleteMenuSave(p)

ConcCrudSpec == Init /\ [][ConcCrudNext]_vars

(***************************************************************************)
(* Replace calls of two concurrent requests.  The repository runs the      *)
(* DELETE and the batch INSERT as two statements on the shared handle,     *)
(* with no transaction, so the statements of two calls interleave.  The    *)
(* service's look-ups read tables that no call in flight writes, and are   *)
(* taken together with the DELETE.                                         *)
(***************************************************************************)
ReplaceRolePermissionsDelete(p, roleID, permissionIDs) ==
    /\ pending.kind \in {"idle", "calls"} /\ InFlight(p) = Idle
    /\ LET c == [op |-> "AssignPermissionsToRole", id |-> roleID,
                 ids |-> permissionIDs]
           err == AssignPermissionsToRoleValidation(roleID, permissionIDs)
       IN  IF err = NoErr
           THEN /\ role_permissions' =
                      DeleteRolePermissions(role_permissions, roleID)
                /\ pending' = SetInFlight(p, [kind |-> "AssignPermissionsToRole",
                                              call |-> c])
           ELSE /\ pending' = SetInFlight(p, Done(c, err))
                /\ UNCHANGED role_permissions
    /\ UNCHANGED <<roles, permissions, menus, user_roles, role_menus, last>>

ReplaceRolePermissionsCreate(p) ==
    /\ InFlight(p).kind = "AssignPermissionsToRole"
    /\ LET c == InFlight(p).call
           res == InsertRolePermissions(role_permissions, c.id, c.ids)
       IN  /\ role_permissions' = res.tbl
           /\ pending' = SetInFlight(p, Done(c,
                 IF res.err # NoErr
                 THEN "failed to assign permissions to role" ELSE NoErr))
    /\ UNCHANGED <<roles, permissions, menus, user_roles, role_menus, last>>

ReplaceUserRolesDelete(p, userID, roleIDs) ==
    /\ pending.kind \in {"idle", "calls"} /\ InFlight(p) = Idle
    /\ LET c == [op |-> "AssignRolesToUser", id |-> userID, ids |-> roleIDs]
           err == AssignRolesToUserValidation(userID, roleIDs)
       IN  IF err = NoErr
           THEN /\ user_roles' = DeleteUserRoles(user_roles, userID)
                /\ pending' = SetInFlight(p, [kind |-> "AssignRolesToUser",
                                              call |-> c])
           ELSE /\ pending' = SetInFlight(p, Done(c, err))
                /\ UNCHANGED user_roles
    /\ UNCHANGED <<roles, permissions, menus, role_permissions, role_menus, last>>

ReplaceUserRolesCreate(p) ==
    /\ InFlight(p).kind = "AssignRolesToUser"
    /\ LET c == InFlight(p).call
           res == InsertUserRoles(user_roles, c.id, c.ids)
       IN  /\ user_roles' = res.tbl
           /\ pending' = SetInFlight(p, Done(c,
                 IF res.err # NoErr
                 THEN "failed to assign roles to user" ELSE NoErr))
    /\ UNCHANGED <<roles, permissions, menus, role_permissions, role_menus, last>>

\* The calls in flight are calls of one operation.
OnlyCallsOf(op) ==
    \A q \in Procs : IF InFlight(q) = Idle THEN TRUE ELSE InFlight(q).call.op = op

ConcAssignNext ==
    \/ \E req \in UserMenuRoleRequests :
          pending = Idle /\ Len(roles) < MaxRoles /\ CreateRole(req)
    \/ \E req \in CreatePermissionRequests :
          pending = Idle /\ Len(permissions) < MaxPermissions
          /\ req.IsActive = Nil /\ CreatePermission(req)
    \/ \E id \in RoleIDs, ids \in SeqsUpTo(PermissionIDs, 1) :
          pending = Idle /\ user_roles = {} /\ AssignPermissionsToRole(id, ids)
    \/ \E u \in Users, ids \in SeqsUpTo(RoleIDs, 1) :
          pending = Idle /\ role_permissions = {} /\ AssignRolesToUser(u, ids)
    \/ \E p \in Procs, id \in RoleIDs, ids \in SeqsUpTo(PermissionIDs, MaxIDs) :
          /\ OnlyCallsOf("AssignPermissionsToRole") /\ user_roles = {}
          /\ ReplaceRolePermissionsDelete(p, id, ids)
    \/ \E p \in Procs : ReplaceRolePermissionsCreate(p)
    \/ \E p \in Procs, u \in Users, ids \in SeqsUpTo(RoleIDs, MaxIDs) :
          /\ OnlyCallsOf("AssignRolesToUser") /\ role_permissions = {}
          /\ ReplaceUserRolesDelete(p, u, ids)
    \/ \E p \in Procs : ReplaceUserRolesCreate(p)

ConcAssignSpec == Init /\ [][ConcAssignNext]_vars

(***************************************************************************)
(* The assignment calls over two roles and two users: records of the three *)
(* kinds are created, then permissions and menus are granted to roles and  *)
(* roles are given to and taken from users.                                *)
(***************************************************************************)
FrameNext ==
    \/ \E req \in UserMenuRoleRequests :
          /\ Len(roles) < MaxRoles
          /\ req.Slug = (IF roles = <<>> THEN "admin" ELSE "teacher")
          /\ CreateRole(req)
    \/ \E req \in CreatePermissionRequests :
          /\ Len(permissions) < MaxPermissions /\ req.IsActive = Nil
          /\ req.Action = (IF permissions = <<>> THEN "create" ELSE "delete")
          /\ CreatePermission(req)
    \/ \E req \in SortedMenuRequests :
          menus = <<>> /\ req.Slug = "dashboard" /\ CreateMenu(req)
    \/ \E id \in RoleIDs, ids \in SeqsUpTo(PermissionIDs, MaxIDs) :
          AssignPermissionsToRole(id, ids)
    \/ \E id \in RoleIDs,
          entries \in SeqsUpTo(UserMenuGrants, MaxUserMenuEntries) :
          /\ \A i \in DOMAIN entries : ~entries[i].CanCreate
          /\ AssignMenusToRole(id, entries)
    \/ \E u \in Users, ids \in SeqsUpTo(RoleIDs, MaxIDs) :
          AssignRolesToUser(u, ids)
    \/ \E u \in Users, ids \in SeqsUpTo(RoleIDs, MaxIDs) :
          Len(ids) > 0 /\ RemoveRolesFromUser(u, ids)

FrameSpec == Init /\ [][FrameNext]_vars

(***************************************************************************)
(* Route guards (middleware/rbac.go).  A request context c carries the     *)
(* value stored under "user_id" (Nil when the key is absent), the URL path *)
(* as its sequence of "/" separators and path elements, the HTTP method,   *)
(* and whether the check's query fails.  A guard's outcome is "next" when  *)
(* it calls c.Next(), and the status of the response it aborts with        *)
(* otherwise; it is kept in last with the guard's arguments.               *)
(***************************************************************************)
TrimPrefix(path, prefix) ==
    IF Len(path) > 0 /\ path[1] = prefix THEN Tail(path) ELSE path

\* strings.Split: one more segment than separators, "" where two separators
\* meet or the path ends in one.
RECURSIVE Split(_, _)
Split(path, sep) ==
    IF path = <<>> THEN <<"">>
    ELSE IF path[1] = sep THEN <<"">> \o Split(Tail(path), sep)
    ELSE <<path[1]>> \o Tail(Split(Tail(path), sep))

extractResourceAndAction(path, method) ==
    LET segments == Split(TrimPrefix(path, "/"), "/")
        resource == IF segments[3] = "rbac" /\ Len(segments) > 3
                    THEN segments[4] ELSE segments[3]
    IN  IF Len(segments) < 3 THEN <<"", "">>
        ELSE IF method = "GET" THEN <<resource, "view">>
        ELSE IF method = "POST" THEN <<resource, "create">>
        ELSE IF method \in {"PUT", "PATCH"} THEN <<resource, "edit">>
        ELSE IF method = "DELETE" THEN <<resource, "delete">>
        ELSE <<"", "">>

\* uuid.Parse succeeds on the ids of the users.
RequirePermission(c, resource, action) ==
    /\ last' = [op |-> "RequirePermission", c |-> c, args |-> <<resource, action>>,
                err |-> IF c.user_id = Nil THEN "401"
                        ELSE IF Deref(c.user_id) \notin Users THEN "400"
                        ELSE IF c.checkFails THEN "500"
                        ELSE IF ~CheckUserPermission(Deref(c.user_id), resource,
                                                     action)
                        THEN "403" ELSE "next"]
    /\ UNCHANGED <<roles, permissions, menus, role_permissions, user_roles,
                   role_menus, pending>>

RequireRole(c, roleSlug) ==
    /\ last' = [op |-> "RequireRole", c |-> c, args |-> roleSlug,
                err |-> IF c.user_id = Nil THEN "401"
                        ELSE IF Deref(c.user_id) \notin Users THEN "400"
                        ELSE IF c.checkFails THEN "500"
                        ELSE IF ~CheckUserRole(Deref(c.user_id), roleSlug)
                        THEN "403" ELSE "next"]
    /\ UNCHANGED <<roles, permissions, menus, role_permissions, user_roles,
                   role_menus, pending>>

\* The loop stops at the first check that fails or returns true.
RequireAnyRole(c, roleSlugs) ==
    /\ last' = [op |-> "RequireAnyRole", c |-> c, args |-> roleSlugs,
                err |-> IF c.user_id = Nil THEN "401"
                        ELSE IF Deref(c.user_id) \notin Users THEN "400"
                        ELSE IF c.checkFails /\ Len(roleSlugs) > 0 THEN "500"
                        ELSE IF ~\E i \in DOMAIN roleSlugs :
                                    CheckUserRole(Deref(c.user_id), roleSlugs[i])
                        THEN "403" ELSE "next"]
    /\ UNCHANGED <<roles, permissions, menus, role_permissions, user_roles,
                   role_menus, pending>>

\* Entries of fewer than two elements are skipped.
RequireAnyPermission(c, perms) ==
    /\ last' = [op |-> "RequireAnyPermission", c |-> c, args |-> perms,
                err |-> IF c.user_id = Nil THEN "401"
                        ELSE IF Deref(c.user_id) \notin Users THEN "400"
                        ELSE IF c.checkFails
                                /\ \E i \in DOMAIN perms : Len(perms[i]) >= 2
                        THEN "500"
                        ELSE IF ~\E i \in DOMAIN perms :
                                    /\ Len(perms[i]) >= 2
                                    /\ CheckUserPermission(Deref(c.user_id),
                                                           perms[i][1], perms[i][2])
                        THEN "403" ELSE "next"]
    /\ UNCHANGED <<roles, permissions, menus, role_permissions, user_roles,
                   role_menus, pending>>

DynamicPermissionCheck(c) ==
    /\ LET ra == extractResourceAndAction(c.path, c.method)
       IN  last' = [op |-> "DynamicPermissionCheck", c |-> c, args |-> <<>>,
                    err |-> IF c.user_id = Nil THEN "401"
                            ELSE IF Deref(c.user_id) \notin Users THEN "400"
                            ELSE IF ra[1] = "" \/ ra[2] = "" THEN "next"
                            ELSE IF c.checkFails THEN "500"
                            ELSE IF ~CheckUserPermission(Deref(c.user_id),
                                                         ra[1], ra[2])
                            THEN "403" ELSE "next"]
    /\ UNCHANGED <<roles, permissions, menus, role_permissions, user_roles,
                   role_menus, pending>>

ContextUserIDs == {Nil, Ptr("not-a-uuid"), Ptr("u1")}

RequestPaths ==
    {<<"/", "health">>,
     <<"/", "api", "/", "v1", "/">>,
     <<"/", "api", "/", "v1", "/", "users">>,
     <<"/", "api", "/", "v1", "/", "rbac", "/", "roles">>}

RequestMethods == {"GET", "POST", "DELETE", "OPTIONS"}

\* The contexts of the guards that do not read the path.
FixedRouteContexts ==
    {[user_id |-> u, path |-> <<"/", "api", "/", "v1", "/", "users">>,
      method |-> "POST", checkFails |-> f] :
        u \in ContextUserIDs, f \in BOOLEAN}

GuardNext ==
    \/ \E req \in UserMenuRoleRequests :
          /\ Len(roles) < MaxRoles
          /\ req.Slug = (IF roles = <<>> THEN "admin" ELSE "teacher")
          /\ CreateRole(req)
    \/ \E req \in CreatePermissionRequests :
          /\ Len(permissions) < MaxPermissions /\ req.IsActive = Nil
          /\ req.Action = (IF permissions = <<>> THEN "create" ELSE "delete")
          /\ CreatePermission(req)
    \/ \E id \in RoleIDs, ids \in SeqsUpTo(PermissionIDs, MaxAuthzPermissions) :
          AssignPermissionsToRole(id, ids)
    \/ \E ids \in SeqsUpTo(RoleIDs, MaxAuthzPermissions) :
          AssignRolesToUser("u1", ids)
    \/ \E c \in FixedRouteContexts, a \in Actions :
          RequirePermission(c, "users", a)
    \/ \E c \in FixedRouteContexts, s \in RoleSlugs : RequireRole(c, s)
    \/ \E c \in FixedRouteContexts, ss \in SeqsUpTo(RoleSlugs, MaxIDs) :
          RequireAnyRole(c, ss)
    \/ \E c \in FixedRouteContexts,
          ps \in SeqsUpTo({<<"users">>, <<"users", "create">>,
                           <<"users", "delete">>}, MaxIDs) :
          RequireAnyPermission(c, ps)
    \/ \E u \in ContextUserIDs, path \in RequestPaths,
          method \in RequestMethods, f \in BOOLEAN :
          DynamicPermissionCheck([user_id |-> u, path |-> path,
                                  method |-> method, checkFails |-> f])

GuardSpec == Init /\ [][GuardNext]_vars
(***************************************************************************)
(* Properties                                                              *)
(***************************************************************************)

\* C1: a soft-deleted role or permission never contributes a true result.
\* Whenever CheckUserPermission(u, res, act) is true, u reaches a permission
\* on (res, act) through a role that is not deleted and the permission is
\* not deleted; whenever CheckUserRole(u, slug) is true, u holds a role with
\* that slug that is not deleted.
C1_SoftDeletedNeverGrants ==
    /\ \A u \in Users, res \in Resources, act \in Actions :
          CheckUserPermission(u, res, act) =>
             \E r \in DOMAIN roles, p \in DOMAIN permissions :
                /\ <<u, r>> \in user_roles
                /\ <<r, p>> \in role_permissions
                /\ ~roles[r].DeletedAt
                /\ ~permissions[p].DeletedAt
                /\ permissions[p].Resource = res
                /\ permissions[p].Action = act
    /\ \A u \in Users, slug \in RoleSlugs :
          CheckUserRole(u, slug) =>
             \E r \in DOMAIN roles :
                /\ <<u, r>> \in user_roles
                /\ roles[r].Slug = slug
                /\ ~roles[r].DeletedAt

\* C2: CheckUserPermission(u, res, act) is true if and only if u holds a role
\* R that is granted a permission P, R is active and not deleted, P is active
\* and not deleted, and P's resource and action equal res and act.
C2_CheckIffActivePath ==
    \A u \in Users, res \in Resources, act \in Actions :
       CheckUserPermission(u, res, act) <=>
          \E r \in DOMAIN roles, p \in DOMAIN permissions :
             /\ <<u, r>> \in user_roles
             /\ <<r, p>> \in role_permissions
             /\ roles[r].IsActive /\ ~roles[r].DeletedAt
             /\ permissions[p].IsActive /\ ~permissions[p].DeletedAt
             /\ permissions[p].Resource = res
             /\ permissions[p].Action = act

\* C3: a successful AssignPermissionsToRole(R, ids) leaves R with exactly the
\* permissions of ids, whatever R was granted before; for a user whose only
\* role is R, CheckUserPermission on the (resource, action) of a permission
\* is then true exactly when an active, not deleted member of ids has that
\* resource and action.
C3_AssignPermissionsReplaces ==
    [][\A id \in 1..MaxGrantRoles,
          ids \in SeqsUpTo(1..MaxGrantPermissions, MaxIDs) :
          AssignPermissionsToRole(id, ids) /\ last'.err = NoErr =>
             /\ RolePermissionsOf(id)' = Range(ids)
             /\ \A u \in Users :
                   UserRolesOf(u) = {id} =>
                      \A p \in DOMAIN permissions :
                         CheckUserPermission(u, permissions[p].Resource,
                                             permissions[p].Action)'
                         <=> \E q \in Range(ids) :
                                /\ permissions[q].IsActive
                                /\ ~permissions[q].DeletedAt
                                /\ permissions[q].Resource = permissions[p].Resource
                                /\ permissions[q].Action = permissions[p].Action
      ]_vars

\* The three permissions exist, the last call replaced the grants of the
\* only role of u1 by the third one alone, and u1 passes the check of the
\* third permission and fails those of the first two.
C3_ReplacedByThird ==
    /\ last = Returned("AssignPermissionsToRole", NoErr)
    /\ Len(permissions) = 3
    /\ \E r \in DOMAIN roles :
          /\ UserRolesOf("u1") = {r}
          /\ RolePermissionsOf(r) = {3}
    /\ CheckUserPermission("u1", permissions[3].Resource, permissions[3].Action)
    /\ ~CheckUserPermission("u1", permissions[1].Resource, permissions[1].Action)
    /\ ~CheckUserPermission("u1", permissions[2].Resource, permissions[2].Action)

\* C4: while a replace call is between its two statements, replacing a set
\* that is not empty by one that is not empty, a read of the junction table
\* returns the whole old set or the whole new one.
C4_ReadersSeeOldOrNew ==
    /\ (/\ pending.kind = "AssignPermissionsToRole"
        /\ pending.old # {}
        /\ Range(pending.ids) # {})
       => RolePermissionsOf(pending.id) \in {pending.old, Range(pending.ids)}
    /\ (/\ pending.kind = "AssignRolesToUser"
        /\ pending.old # {}
        /\ Range(pending.ids) # {})
       => UserRolesOf(pending.id) \in {pending.old, Range(pending.ids)}

\* C5: an assignment call that returns an error leaves the junction rows of
\* its role or user as they were before the call.
C5_FailedAssignmentChangesNothing ==
    [][/\ \A id \in 1..MaxGrantRoles,
             ids \in SeqsUpTo(1..MaxGrantPermissions, MaxIDs) :
             AssignPermissionsToRole(id, ids) /\ last'.err # NoErr =>
                RolePermissionsOf(id)' = RolePermissionsOf(id)
       /\ \A u \in Users, ids \in SeqsUpTo(1..MaxGrantRoles, MaxIDs) :
             AssignRolesToUser(u, ids) /\ last'.err # NoErr =>
                UserRolesOf(u)' = UserRolesOf(u)
      ]_vars

\* C6: RemoveRolesFromUser(u, ids) succeeds and removes exactly the rows
\* (u, r) with r in ids: every other row of u and every row of another user
\* stays, so CheckUserRole changes only for u and the slugs of the roles in
\* ids, where it becomes false.
C6_RemoveIsTargeted ==
    [][\A u \in Users, ids \in SeqsUpTo(RoleIDs, MaxIDs) :
          RemoveRolesFromUser(u, ids) =>
             /\ last'.err = NoErr
             /\ user_roles' = user_roles \ {<<u, r>> : r \in Range(ids)}
             /\ \A v \in Users, slug \in RoleSlugs :
                   CheckUserRole(v, slug)' <=>
                      /\ CheckUserRole(v, slug)
                      /\ ~(/\ v = u
                           /\ \E r \in Range(ids) \cap DOMAIN roles :
                                 roles[r].Slug = slug)
      ]_vars

\* u1 held both roles and the last call removed the first: u1 still passes
\* the check of the second role and fails the check of the first, and u2
\* holds both.
C6_RemovedOneOfTwo ==
    /\ last = Returned("RemoveRolesFromUser", NoErr)
    /\ Len(roles) = 2
    /\ \A r \in DOMAIN roles : roles[r].IsActive /\ ~roles[r].DeletedAt
    /\ UserRolesOf("u1") = {2}
    /\ UserRolesOf("u2") = {1, 2}
    /\ CheckUserRole("u1", roles[2].Slug)
    /\ ~CheckUserRole("u1", roles[1].Slug)
    /\ CheckUserRole("u2", roles[1].Slug)

\* C7: with roles and permissions as CreateRole and CreatePermission made
\* them, CheckUserPermission(u, res, act) is true when u holds a role that
\* was assigned a permission on (res, act), and false when u reaches no
\* permission on (res, act).
C7_GrantAndCheck ==
    \A u \in Users, res \in Resources, act \in Actions :
       CheckUserPermission(u, res, act) <=>
          \E r \in UserRolesOf(u) :
             \E p \in RolePermissionsOf(r) \cap DOMAIN permissions :
                /\ permissions[p].Resource = res
                /\ permissions[p].Action = act

\* u1 was just given the one role that is granted the permission on
\* ("users", "create"); a permission on ("users", "delete") exists and is
\* granted to no role of u1.
C7_CreateGrantedDeleteNot ==
    /\ last = Returned("AssignRolesToUser", NoErr)
    /\ \E r \in DOMAIN roles :
          /\ UserRolesOf("u1") = {r}
          /\ \E p \in RolePermissionsOf(r) :
                permissions[p].Resource = "users" /\ permissions[p].Action = "create"
    /\ \E p \in DOMAIN permissions :
          permissions[p].Resource = "users" /\ permissions[p].Action = "delete"
    /\ CheckUserPermission("u1", "users", "create")
    /\ ~CheckUserPermission("u1", "users", "delete")

\* C8: a create call whose slug is the slug of a record of the same kind
\* that is not deleted returns "<kind> slug already exists" and leaves the
\* table of that kind as it was.
C8_SlugConflictOnCreate ==
    [][/\ \A req \in NamedRoleRequests :
             /\ CreateRole(req)
             /\ \E i \in DOMAIN roles :
                   roles[i].Slug = req.Slug /\ ~roles[i].DeletedAt
             => last'.err = "role slug already exists" /\ roles' = roles
       /\ \A req \in NamedPermissionRequests :
             /\ CreatePermission(req)
             /\ \E i \in DOMAIN permissions :
                   permissions[i].Slug = req.Slug /\ ~permissions[i].DeletedAt
             => /\ last'.err = "permission slug already exists"
                /\ permissions' = permissions
       /\ \A req \in NamedMenuRequests :
             /\ CreateMenu(req)
             /\ \E i \in DOMAIN menus :
                   menus[i].Slug = req.Slug /\ ~menus[i].DeletedAt
             => last'.err = "menu slug already exists" /\ menus' = menus
      ]_vars

\* The last call was a CreateRole refused for its slug, and the one role
\* that holds the slug is the only row.
C8_RoleSlugRefused ==
    /\ last = Returned("CreateRole", "role slug already exists")
    /\ Len(roles) = 1
    /\ ~roles[1].DeletedAt

\* C9: once the only record with slug s has been soft-deleted, a create call
\* with slug s and a name that no record holds succeeds and appends the new
\* record.
C9_SlugReusableAfterDelete ==
    [][/\ \A req \in NamedRoleRequests :
             /\ CreateRole(req)
             /\ \E i \in DOMAIN roles : roles[i].Slug = req.Slug
             /\ \A i \in DOMAIN roles :
                   /\ roles[i].Slug = req.Slug => roles[i].DeletedAt
                   /\ roles[i].Name # req.Name
             => /\ last'.err = NoErr
                /\ Len(roles') = Len(roles) + 1
                /\ roles'[Len(roles')].Slug = req.Slug
       /\ \A req \in NamedPermissionRequests :
             /\ CreatePermission(req)
             /\ \E i \in DOMAIN permissions : permissions[i].Slug = req.Slug
             /\ \A i \in DOMAIN permissions :
                   /\ permissions[i].Slug = req.Slug => permissions[i].DeletedAt
                   /\ permissions[i].Name # req.Name
             => /\ last'.err = NoErr
                /\ Len(permissions') = Len(permissions) + 1
                /\ permissions'[Len(permissions')].Slug = req.Slug
       /\ \A req \in NamedMenuRequests :
             /\ CreateMenu(req)
             /\ \E i \in DOMAIN menus : menus[i].Slug = req.Slug
             /\ \A i \in DOMAIN menus :
                   menus[i].Slug = req.Slug => menus[i].DeletedAt
             => /\ last'.err = NoErr
                /\ Len(menus') = Len(menus) + 1
                /\ menus'[Len(menus')].Slug = req.Slug
      ]_vars

\* C10 as stated: UpdateMenu of a menu that exists with parent_id the menu's
\* own id returns "menu cannot be parent of itself" and leaves the menus as
\* they were, whatever else the request holds.
C10_SelfParentAlwaysValidation ==
    [][\A id \in MenuIDs, req \in UpdateMenuRequests :
          /\ UpdateMenu(id, req)
          /\ GetMenuByID(id) # Nil
          /\ req.ParentID = Ptr(id)
          => /\ last'.err = "menu cannot be parent of itself"
             /\ menus' = menus
      ]_vars

\* C10: UpdateMenu of a menu that exists with parent_id the menu's own id
\* fails and leaves the menus as they were; the error is "menu slug already
\* exists" when the request carries a slug held by another menu that is not
\* deleted, and "menu cannot be parent of itself" otherwise.
C10_SelfParentRejected ==
    [][\A id \in MenuIDs, req \in UpdateMenuRequests :
          /\ UpdateMenu(id, req)
          /\ GetMenuByID(id) # Nil
          /\ req.ParentID = Ptr(id)
          => /\ menus' = menus
             /\ last'.err =
                   IF /\ req.Slug # Nil
                      /\ \E i \in DOMAIN menus \ {id} :
                            menus[i].Slug = Deref(req.Slug) /\ ~menus[i].DeletedAt
                   THEN "menu slug already exists"
                   ELSE "menu cannot be parent of itself"
      ]_vars

\* The last call was an UpdateMenu refused for naming the menu as its own
\* parent; a menu exists and none is its own parent.
C10_SelfParentRefused ==
    /\ last = Returned("UpdateMenu", "menu cannot be parent of itself")
    /\ \E i \in DOMAIN menus : ~menus[i].DeletedAt
    /\ \A i \in DOMAIN menus : menus[i].ParentID # Ptr(i)

\* C11: every row GetUserAccessibleMenus returns has can_view true; and once
\* AssignMenusToRole(R, entries) has succeeded, a user whose only role is R
\* is returned no row for the menu of an entry with can_view false, and a
\* row for the menu of each entry with can_view true.
C11_AccessibleMenusFollowCanView ==
    [][/\ \A u \in Users : \A e \in GetUserAccessibleMenus(u)' : e.CanView
       /\ \A id \in RoleIDs,
             entries \in SeqsUpTo(MenuPermissionRequests, MaxEntries) :
             AssignMenusToRole(id, entries) /\ last'.err = NoErr =>
                \A u \in Users :
                   UserRolesOf(u) = {id} =>
                      \A i \in DOMAIN entries :
                         entries[i].CanView <=>
                            \E e \in GetUserAccessibleMenus(u)' :
                               e.MenuID = entries[i].MenuID
      ]_vars

\* C12: on a role that exists, AssignPermissionsToRole(R, ids) returns "some
\* permissions not found" if and only if some id of ids is not the id of a
\* permission that exists, is active and is not deleted; and when it returns
\* that error the rows of role_permissions are as before.
C12_AssignPermissionsValidation ==
    [][\A id \in RoleIDs, ids \in SeqsUpTo(PermissionIDs, MaxIDs) :
          AssignPermissionsToRole(id, ids) /\ GetRoleByID(id) # Nil =>
             /\ last'.err = "some permissions not found" <=>
                   \E i \in DOMAIN ids :
                      ~(/\ ids[i] \in DOMAIN permissions
                        /\ ~permissions[ids[i]].DeletedAt
                        /\ permissions[ids[i]].IsActive)
             /\ last'.err = "some permissions not found" =>
                   role_permissions' = role_permissions
      ]_vars

\* C13: once AssignMenusToRole(R, entries) has succeeded, the rows of R in
\* role_menus are one row per entry, with the menu and the four flags of the
\* entry as the request gave them, and no other row; and a call with an
\* entry whose menu does not exist, is deleted or is not active fails and
\* leaves role_menus as it was.
C13_AssignMenusReplacesWithFlags ==
    [][\A id \in RoleIDs,
          entries \in SeqsUpTo(MenuPermissionRequests, MaxEntries) :
          AssignMenusToRole(id, entries) =>
             /\ last'.err = NoErr =>
                   {e \in role_menus' : e.RoleID = id} =
                      {[RoleID |-> id,
                        MenuID |-> entries[i].MenuID,
                        CanView |-> entries[i].CanView,
                        CanCreate |-> entries[i].CanCreate,
                        CanEdit |-> entries[i].CanEdit,
                        CanDelete |-> entries[i].CanDelete] : i \in DOMAIN entries}
             /\ (\E i \in DOMAIN entries :
                    ~(/\ entries[i].MenuID \in DOMAIN menus
                      /\ ~menus[entries[i].MenuID].DeletedAt
                      /\ menus[entries[i].MenuID].IsActive))
                => last'.err # NoErr /\ role_menus' = role_menus
      ]_vars

\* C14: once AssignRolesToUser(u, ids) has succeeded the roles u holds are
\* exactly those of ids; and a call with an id that is not the id of a role
\* that exists and is not deleted fails and leaves user_roles as it was.
C14_AssignRolesSetsRoleSet ==
    [][\A u \in Users, ids \in SeqsUpTo(RoleIDs, MaxIDs) :
          AssignRolesToUser(u, ids) =>
             /\ last'.err = NoErr => UserRolesOf(u)' = Range(ids)
             /\ (\E i \in DOMAIN ids :
                    ~(ids[i] \in DOMAIN roles /\ ~roles[ids[i]].DeletedAt))
                => last'.err # NoErr /\ user_roles' = user_roles
      ]_vars

\* The last call gave u1 the second role alone, u2 holds the first, and
\* CheckUserRole follows: u1 passes for the second role only.
C14_RoleSetReplaced ==
    /\ last = Returned("AssignRolesToUser", NoErr)
    /\ Len(roles) = 2
    /\ \A r \in DOMAIN roles : roles[r].IsActive /\ ~roles[r].DeletedAt
    /\ UserRolesOf("u1") = {2}
    /\ UserRolesOf("u2") = {1}
    /\ CheckUserRole("u1", roles[2].Slug)
    /\ ~CheckUserRole("u1", roles[1].Slug)

\* Every tree GetMenuTree can return lists each menu that is active, not
\* deleted and without parent once, in ascending sort_order, and gives each
\* as Children its direct children that are active and not deleted, once
\* each, in ascending sort_order, themselves without Children.
MenuTreeIsWellShaped ==
    \A t \in GetMenuTree :
       /\ {t[i].ID : i \in DOMAIN t} =
             {m \in DOMAIN menus :
                 menus[m].IsActive /\ ~menus[m].DeletedAt /\ menus[m].ParentID = Nil}
       /\ \A i, j \in DOMAIN t :
             /\ i # j => t[i].ID # t[j].ID
             /\ i < j => menus[t[i].ID].SortOrder <= menus[t[j].ID].SortOrder
       /\ \A i \in DOMAIN t :
             LET kids == t[i].Children
             IN  /\ t[i].Name = menus[t[i].ID].Name
                 /\ {kids[k].ID : k \in DOMAIN kids} =
                       {c \in DOMAIN menus :
                           /\ menus[c].ParentID = Ptr(t[i].ID)
                           /\ menus[c].IsActive
                           /\ ~menus[c].DeletedAt}
                 /\ \A k, l \in DOMAIN kids :
                       /\ k # l => kids[k].ID # kids[l].ID
                       /\ k < l => menus[kids[k].ID].SortOrder
                                      <= menus[kids[l].ID].SortOrder
                 /\ \A k \in DOMAIN kids : kids[k].Children = <<>>

\* C15: after every call GetMenuTree has the shape above; and a menu that
\* CreateMenu has just created is in the tree under its name: as a root when
\* the request had no parent, in the Children of its parent when the parent
\* is a root of the tree.
C15_MenuTreeShape ==
    [][/\ MenuTreeIsWellShaped'
       /\ \A req \in TreeMenuRequests :
             CreateMenu(req) /\ last'.err = NoErr =>
                \A t \in GetMenuTree' :
                   IF req.ParentID = Nil
                   THEN \E i \in DOMAIN t :
                           t[i].ID = Len(menus) + 1 /\ t[i].Name = req.Name
                   ELSE Deref(req.ParentID) \in MenuRoots =>
                           \E i \in DOMAIN t :
                              /\ t[i].ID = Deref(req.ParentID)
                              /\ \E k \in DOMAIN t[i].Children :
                                    /\ t[i].Children[k].ID = Len(menus) + 1
                                    /\ t[i].Children[k].Name = req.Name
      ]_vars

\* 'Dashboard' was created as a root at sort_order 1 and 'Sub' under it: the
\* tree is the one root 'Dashboard' whose Children is 'Sub' alone.
C15_DashboardWithSub ==
    /\ last = Returned("CreateMenu", NoErr)
    /\ Len(menus) = 2
    /\ menus[1].Name = "Dashboard" /\ menus[1].SortOrder = 1
    /\ menus[2].Name = "Sub" /\ menus[2].ParentID = Ptr(1)
    /\ GetMenuTree =
          {<<[ID |-> 1, Name |-> "Dashboard",
              Children |-> <<[ID |-> 2, Name |-> "Sub", Children |-> <<>>]>>]>>}

\* C16: the record a successful CreateRole, CreatePermission or CreateMenu
\* stores has is_active true when the request sets is_active to true, and
\* false when the request leaves it out or sets it to false.
C16_CreateDefaultsInactive ==
    [][/\ \A req \in CreateRoleRequests :
             CreateRole(req) /\ last'.err = NoErr =>
                roles'[Len(roles')].IsActive = (req.IsActive = Ptr(TRUE))
       /\ \A req \in CreatePermissionRequests :
             CreatePermission(req) /\ last'.err = NoErr =>
                permissions'[Len(permissions')].IsActive = (req.IsActive = Ptr(TRUE))
       /\ \A req \in CrudMenuRequests :
             CreateMenu(req) /\ last'.err = NoErr =>
                menus'[Len(menus')].IsActive = (req.IsActive = Ptr(TRUE))
      ]_vars

\* C17: no call removes a row of roles, permissions or menus or clears its
\* deleted_at; a successful DeleteRole, DeletePermission or DeleteMenu leaves
\* the row stored with deleted_at and deleted_by set; and after every call a
\* row with deleted_at set is in no listing (GetRoles, GetPermissions,
\* GetMenus) and nowhere in a tree of GetMenuTree.
C17_SoftDeleteOnly ==
    [][/\ \A i \in DOMAIN roles :
             i \in DOMAIN roles' /\ (roles[i].DeletedAt => roles'[i].DeletedAt)
       /\ \A i \in DOMAIN permissions :
             /\ i \in DOMAIN permissions'
             /\ permissions[i].DeletedAt => permissions'[i].DeletedAt
       /\ \A i \in DOMAIN menus :
             i \in DOMAIN menus' /\ (menus[i].DeletedAt => menus'[i].DeletedAt)
       /\ \A id \in RoleIDs :
             DeleteRole(id) /\ last'.err = NoErr =>
                /\ Len(roles') = Len(roles)
                /\ roles'[id].DeletedAt /\ roles'[id].DeletedBy # Nil
       /\ \A id \in PermissionIDs :
             DeletePermission(id) /\ last'.err = NoErr =>
                /\ Len(permissions') = Len(permissions)
                /\ permissions'[id].DeletedAt /\ permissions'[id].DeletedBy # Nil
       /\ \A id \in MenuIDs :
             DeleteMenu(id) /\ last'.err = NoErr =>
                /\ Len(menus') = Len(menus)
                /\ menus'[id].DeletedAt /\ menus'[id].DeletedBy # Nil
       /\ \A i \in DOMAIN roles' : roles'[i].DeletedAt => i \notin GetRoles'
       /\ \A i \in DOMAIN permissions' :
             permissions'[i].DeletedAt => i \notin GetPermissions'
       /\ \A i \in DOMAIN menus' :
             menus'[i].DeletedAt =>
                /\ i \notin GetMenus'
                /\ \A t \in GetMenuTree' :
                      \A k \in DOMAIN t :
                         /\ t[k].ID # i
                         /\ \A l \in DOMAIN t[k].Children :
                               t[k].Children[l].ID # i
      ]_vars

\* The first of two roles was just deleted: its row is still stored, with
\* deleted_at and deleted_by set, and GetRoles lists the second role alone.
C17_DeletedRoleStoredNotListed ==
    /\ last = Returned("DeleteRole", NoErr)
    /\ Len(roles) = 2
    /\ roles[1].DeletedAt /\ roles[1].DeletedBy # Nil
    /\ GetRoles = {2}

\* C18: UpdateRole, UpdatePermission, UpdateMenu, DeleteRole, DeletePermission
\* and DeleteMenu called with an id that has no row or whose row is already
\* soft-deleted return the "not found" error of their kind and change no
\* stored record.
C18_NotFoundOnMissingTarget ==
    [][/\ \A id \in RoleIDs :
             (id \notin DOMAIN roles \/ roles[id].DeletedAt) =>
                /\ (/\ last'.op = "UpdateRole"
                    /\ \E req \in UpdateRoleRequests : UpdateRole(id, req))
                      => last'.err = "role not found" /\ roles' = roles
                /\ DeleteRole(id) =>
                      last'.err = "role not found" /\ roles' = roles
       /\ \A id \in PermissionIDs :
             (id \notin DOMAIN permissions \/ permissions[id].DeletedAt) =>
                /\ (/\ last'.op = "UpdatePermission"
                    /\ \E req \in UpdatePermissionRequests :
                          UpdatePermission(id, req))
                      => /\ last'.err = "permission not found"
                         /\ permissions' = permissions
                /\ DeletePermission(id) =>
                      /\ last'.err = "permission not found"
                      /\ permissions' = permissions
       /\ \A id \in MenuIDs :
             (id \notin DOMAIN menus \/ menus[id].DeletedAt) =>
                /\ (/\ last'.op = "UpdateMenu"
                    /\ \E req \in CrudUpdateMenuRequests : UpdateMenu(id, req))
                      => last'.err = "menu not found" /\ menus' = menus
                /\ DeleteMenu(id) =>
                      last'.err = "menu not found" /\ menus' = menus
      ]_vars

\* A second DeleteRole on the same id: the role is stored soft-deleted and the
\* call just returned "role not found".
C18_SecondDeleteNotFound ==
    /\ last = Returned("DeleteRole", "role not found")
    /\ Len(roles) >= 1
    /\ roles[1].DeletedAt
    /\ \A i \in DOMAIN roles : i # 1 => ~roles[i].DeletedAt

\* C19: a successful UpdateRole, UpdatePermission or UpdateMenu leaves every
\* other row as it was and, in the row of the id, sets each field the request
\* carries to the requested value and keeps each field the request leaves out
\* (nil), as well as deleted_at and deleted_by, at its stored value.
C19_PartialUpdate ==
    [][LET Field(opt, old) == IF opt = Nil THEN old ELSE Deref(opt)
       IN
       /\ (last'.op = "UpdateRole" /\ last'.err = NoErr) =>
             \A id \in RoleIDs, req \in UpdateRoleRequests :
                UpdateRole(id, req) =>
                   /\ DOMAIN roles' = DOMAIN roles
                   /\ \A i \in DOMAIN roles : i # id => roles'[i] = roles[i]
                   /\ roles'[id].Name = Field(req.Name, roles[id].Name)
                   /\ roles'[id].Slug = Field(req.Slug, roles[id].Slug)
                   /\ roles'[id].IsActive
                         = Field(req.IsActive, roles[id].IsActive)
                   /\ roles'[id].DeletedAt = roles[id].DeletedAt
                   /\ roles'[id].DeletedBy = roles[id].DeletedBy
       /\ (last'.op = "UpdatePermission" /\ last'.err = NoErr) =>
             \A id \in PermissionIDs, req \in UpdatePermissionRequests :
                UpdatePermission(id, req) =>
                   /\ DOMAIN permissions' = DOMAIN permissions
                   /\ \A i \in DOMAIN permissions :
                         i # id => permissions'[i] = permissions[i]
                   /\ permissions'[id].Name
                         = Field(req.Name, permissions[id].Name)
                   /\ permissions'[id].Slug
                         = Field(req.Slug, permissions[id].Slug)
                   /\ permissions'[id].Resource
                         = Field(req.Resource, permissions[id].Resource)
                   /\ permissions'[id].Action
                         = Field(req.Action, permissions[id].Action)
                   /\ permissions'[id].IsActive
                         = Field(req.IsActive, permissions[id].IsActive)
                   /\ permissions'[id].DeletedAt = permissions[id].DeletedAt
                   /\ permissions'[id].DeletedBy = permissions[id].DeletedBy
       /\ (last'.op = "UpdateMenu" /\ last'.err = NoErr) =>
             \A id \in MenuIDs, req \in CrudUpdateMenuRequests :
                UpdateMenu(id, req) =>
                   /\ DOMAIN menus' = DOMAIN menus
                   /\ \A i \in DOMAIN menus : i # id => menus'[i] = menus[i]
                   /\ menus'[id].Name = Field(req.Name, menus[id].Name)
                   /\ menus'[id].Slug = Field(req.Slug, menus[id].Slug)
                   /\ menus'[id].ParentID
                         = (IF req.ParentID = Nil THEN menus[id].ParentID
                            ELSE req.ParentID)
                   /\ menus'[id].SortOrder
                         = Field(req.SortOrder, menus[id].SortOrder)
                   /\ menus'[id].IsActive
                         = Field(req.IsActive, menus[id].IsActive)
                   /\ menus'[id].DeletedAt = menus[id].DeletedAt
                   /\ menus'[id].DeletedBy = menus[id].DeletedBy
      ]_vars

\* A role created as Admin/admin and active was renamed by an update that
\* carried a name only: the name is the new one, slug and is_active are kept.
C19_RenamedRoleKeepsSlug ==
    /\ last = Returned("UpdateRole", NoErr)
    /\ Len(roles) = 1
    /\ roles[1].Name = "Manager"
    /\ roles[1].Slug = "admin"
    /\ roles[1].IsActive
    /\ ~roles[1].DeletedAt

\* C20: an update of a stored, non-deleted record that carries a slug s
\* succeeds, when it carries nothing else, if s is the record's own slug or
\* no non-deleted record owns s; and it returns the kind's "slug already
\* exists" error and leaves the table unchanged, whatever else the request
\* carries, if a different non-deleted record of the kind owns s.
C20_SlugCheckOnUpdateExcludesSelf ==
    [][/\ \A id \in DOMAIN roles, req \in UpdateRoleRequests :
             (~roles[id].DeletedAt /\ req.Slug # Nil /\ UpdateRole(id, req)) =>
                LET s == Deref(req.Slug)
                    others == {i \in DOMAIN roles \ {id} :
                                  roles[i].Slug = s /\ ~roles[i].DeletedAt}
                    free == \A i \in DOMAIN roles :
                               roles[i].Slug = s => roles[i].DeletedAt
                IN /\ (/\ req.Name = Nil /\ req.IsActive = Nil
                       /\ (roles[id].Slug = s \/ free))
                         => last'.err = NoErr
                   /\ others # {} =>
                         /\ last'.err = "role slug already exists"
                         /\ roles' = roles
       /\ \A id \in DOMAIN permissions, req \in UpdatePermissionRequests :
             (/\ ~permissions[id].DeletedAt /\ req.Slug # Nil
              /\ UpdatePermission(id, req)) =>
                LET s == Deref(req.Slug)
                    others == {i \in DOMAIN permissions \ {id} :
                                  /\ permissions[i].Slug = s
                                  /\ ~permissions[i].DeletedAt}
                    free == \A i \in DOMAIN permissions :
                               permissions[i].Slug = s => permissions[i].DeletedAt
                IN /\ (/\ req.Name = Nil /\ req.Resource = Nil
                       /\ req.Action = Nil /\ req.IsActive = Nil
                       /\ (permissions[id].Slug = s \/ free))
                         => last'.err = NoErr
                   /\ others # {} =>
                         /\ last'.err = "permission slug already exists"
                         /\ permissions' = permissions
       /\ \A id \in DOMAIN menus, req \in CrudUpdateMenuRequests :
             (~menus[id].DeletedAt /\ req.Slug # Nil /\ UpdateMenu(id, req)) =>
                LET s == Deref(req.Slug)
                    others == {i \in DOMAIN menus \ {id} :
                                  menus[i].Slug = s /\ ~menus[i].DeletedAt}
                    free == \A i \in DOMAIN menus :
                               menus[i].Slug = s => menus[i].DeletedAt
                IN /\ (/\ req.Name = Nil /\ req.ParentID = Nil
                       /\ req.SortOrder = Nil /\ req.IsActive = Nil
                       /\ (menus[id].Slug = s \/ free))
                         => last'.err = NoErr
                   /\ others # {} =>
                         /\ last'.err = "menu slug already exists"
                         /\ menus' = menus
      ]_vars

\* C21: a CreateMenu whose slug no row owns and whose parent_id is set returns
\* "parent menu not found" and stores nothing whenever the parent id has no
\* row, a soft-deleted row or an inactive row; a CreateMenu without parent_id
\* that succeeds appends a menu with no parent.
C21_CreateMenuParentExists ==
    [][last'.op = "CreateMenu" =>
          \A req \in CrudMenuRequests :
             ((\A i \in DOMAIN menus : menus[i].Slug # req.Slug)
                 /\ CreateMenu(req)) =>
                /\ (/\ req.ParentID # Nil
                    /\ ~(/\ Deref(req.ParentID) \in DOMAIN menus
                         /\ ~menus[Deref(req.ParentID)].DeletedAt
                         /\ menus[Deref(req.ParentID)].IsActive))
                      => /\ last'.err = "parent menu not found"
                         /\ menus' = menus
                /\ (req.ParentID = Nil /\ last'.err = NoErr)
                      => /\ Len(menus') = Len(menus) + 1
                         /\ menus'[Len(menus')].ParentID = Nil
      ]_vars

\* C22: in every state, a non-deleted menu whose parent_id is set has a
\* parent_id other than its own id that is the id of a stored, non-deleted
\* menu.
C22_MenuParentInvariant ==
    \A i \in DOMAIN menus :
       (~menus[i].DeletedAt /\ menus[i].ParentID # Nil) =>
          /\ Deref(menus[i].ParentID) # i
          /\ Deref(menus[i].ParentID) \in DOMAIN menus
          /\ ~menus[Deref(menus[i].ParentID)].DeletedAt

\* C23: in every state the parent relation over menus is acyclic: following
\* parent_id from a menu, for as many steps as there are menus, never comes
\* back to that menu.
C23_ParentRelationAcyclic ==
    LET Parent(i) == IF menus[i].ParentID # Nil
                        /\ Deref(menus[i].ParentID) \in DOMAIN menus
                     THEN {Deref(menus[i].ParentID)} ELSE {}
        Reach[n \in 0..Len(menus)] ==
            [i \in DOMAIN menus |->
                IF n = 0 THEN {}
                ELSE Parent(i) \cup UNION {Parent(j) : j \in Reach[n - 1][i]}]
    IN \A i \in DOMAIN menus : i \notin Reach[Len(menus)][i]

\* C24: in every state GetUserMenus of the user returns, without error, exactly
\* one row for each role_menus grant whose role the user holds and whose menu
\* is active and not soft-deleted, each row with the role, menu and flags of
\* its grant (two roles granting one menu give two rows), in ascending
\* sort_order of the menu.
C24_UserMenusRawGrants ==
    \A out \in GetUserMenus("u1") :
       LET grants == {e \in role_menus :
                         /\ <<"u1", e.RoleID>> \in user_roles
                         /\ e.MenuID \in DOMAIN menus
                         /\ menus[e.MenuID].IsActive
                         /\ ~menus[e.MenuID].DeletedAt}
           Row(e, r) == /\ r.RoleID = e.RoleID /\ r.MenuID = e.MenuID
                        /\ r.CanView = e.CanView /\ r.CanCreate = e.CanCreate
                        /\ r.CanEdit = e.CanEdit /\ r.CanDelete = e.CanDelete
       IN /\ out.err = NoErr
          /\ Len(out.Data) = Cardinality(grants)
          /\ \A e \in grants : \E i \in DOMAIN out.Data : Row(e, out.Data[i])
          /\ \A i, j \in DOMAIN out.Data :
                i < j => menus[out.Data[i].MenuID].SortOrder
                            <= menus[out.Data[j].MenuID].SortOrder

\* C25: in every state, also between the statements of two calls that run in
\* parallel, no two non-deleted roles have the same slug, no two non-deleted
\* permissions have the same slug and no two non-deleted menus have the same
\* slug.
C25_SlugUniqueUnderConcurrency ==
    /\ \A i, j \in DOMAIN roles :
          (i # j /\ ~roles[i].DeletedAt /\ ~roles[j].DeletedAt)
             => roles[i].Slug # roles[j].Slug
    /\ \A i, j \in DOMAIN permissions :
          (i # j /\ ~permissions[i].DeletedAt /\ ~permissions[j].DeletedAt)
             => permissions[i].Slug # permissions[j].Slug
    /\ \A i, j \in DOMAIN menus :
          (i # j /\ ~menus[i].DeletedAt /\ ~menus[j].DeletedAt)
             => menus[i].Slug # menus[j].Slug

\* Two CreateRole calls with different names and one slug ran in parallel:
\* both passed the slug lookup, the first wrote its row, and the write of the
\* second was refused.
C25_SecondConcurrentCreateRefused ==
    /\ pending.kind = "calls"
    /\ pending.by[1] = Done([op |-> "CreateRole",
                             req |-> [Name |-> "Admin", Slug |-> "admin",
                                      IsActive |-> Nil]], NoErr)
    /\ pending.by[2] = Done([op |-> "CreateRole",
                             req |-> [Name |-> "Teacher", Slug |-> "admin",
                                      IsActive |-> Nil]],
                            "failed to create role")
    /\ Len(roles) = 1
    /\ roles[1].Name = "Admin"

\* C26: no statement of any call, in any interleaving of two parallel calls,
\* clears the deleted_at of a role, permission or menu that has it set, so
\* the record stays out of GetRoles, GetPermissions and GetMenus.
C26_SoftDeletePermanent ==
    [][/\ \A i \in DOMAIN roles :
             roles[i].DeletedAt => (roles'[i].DeletedAt /\ i \notin GetRoles')
       /\ \A i \in DOMAIN permissions :
             permissions[i].DeletedAt =>
                (permissions'[i].DeletedAt /\ i \notin GetPermissions')
       /\ \A i \in DOMAIN menus :
             menus[i].DeletedAt => (menus'[i].DeletedAt /\ i \notin GetMenus')
      ]_vars

\* C28: when the two parallel calls were updates of one id of one kind and
\* both returned without error, the stored record is what the two partial
\* updates give when applied one after the other, in one of the two orders,
\* to the record as it was before either wrote.
C28_ConcurrentUpdatesSerializable ==
    (/\ pending.kind = "calls"
     /\ \A p \in Procs : pending.by[p].kind = "done" /\ pending.by[p].err = NoErr
     /\ pending.by[1].call.op = pending.by[2].call.op
     /\ pending.by[1].call.op \in {"UpdateRole", "UpdatePermission", "UpdateMenu"}
     /\ pending.by[1].call.id = pending.by[2].call.id)
    => LET a == pending.by[1].call
           b == pending.by[2].call
       IN  /\ a.op = "UpdateRole" =>
                 roles[a.id] \in {PatchRole(PatchRole(a.role, a.req), b.req),
                                  PatchRole(PatchRole(b.role, b.req), a.req)}
           /\ a.op = "UpdatePermission" =>
                 permissions[a.id]
                    \in {PatchPermission(PatchPermission(a.permission, a.req), b.req),
                         PatchPermission(PatchPermission(b.permission, b.req), a.req)}
           /\ a.op = "UpdateMenu" =>
                 menus[a.id] \in {PatchMenu(PatchMenu(a.menu, a.req), b.req),
                                  PatchMenu(PatchMenu(b.menu, b.req), a.req)}

\* C27: two concurrent replace calls on the same role (or the same user) do
\* not mix: once both have returned without error, the final set is the set
\* of one of the two calls, as after some serial order.
C27_ConcurrentReplacesDoNotMix ==
    (/\ pending.kind = "calls"
     /\ \A p \in Procs : pending.by[p].kind = "done" /\ pending.by[p].err = NoErr
     /\ \A q \in Procs : pending.by[q].call.op = pending.by[1].call.op
                          /\ pending.by[q].call.id = pending.by[1].call.id)
    => \E p \in Procs :
          LET c == pending.by[p].call
          IN  IF c.op = "AssignPermissionsToRole"
              THEN RolePermissionsOf(c.id) = Range(c.ids)
              ELSE UserRolesOf(c.id) = Range(c.ids)

\* The rows by which two states of a junction table differ.
ChangedRows(old, new) == (old \ new) \cup (new \ old)

\* C29: frame of the assignment calls.  AssignPermissionsToRole(R, ...)
\* changes only role_permissions rows of role R, AssignMenusToRole(R, ...)
\* only role_menus rows of role R, AssignRolesToUser(U, ...) and
\* RemoveRolesFromUser(U, ...) only user_roles rows of user U; no role,
\* permission or menu record and no other junction table changes.
C29_AssignmentFrame ==
    [][/\ \A R \in RoleIDs :
            (last'.op = "AssignPermissionsToRole"
             /\ \E ids \in SeqsUpTo(PermissionIDs, MaxIDs) :
                    AssignPermissionsToRole(R, ids))
            => /\ UNCHANGED <<roles, permissions, menus, user_roles, role_menus>>
               /\ \A e \in ChangedRows(role_permissions, role_permissions') :
                     e[1] = R
       /\ \A R \in RoleIDs :
            (last'.op = "AssignMenusToRole"
             /\ \E entries \in SeqsUpTo(UserMenuGrants, MaxUserMenuEntries) :
                    AssignMenusToRole(R, entries))
            => /\ UNCHANGED <<roles, permissions, menus, user_roles,
                              role_permissions>>
               /\ \A e \in ChangedRows(role_menus, role_menus') : e.RoleID = R
       /\ \A U \in Users :
            (last'.op \in {"AssignRolesToUser", "RemoveRolesFromUser"}
             /\ \E ids \in SeqsUpTo(RoleIDs, MaxIDs) :
                    AssignRolesToUser(U, ids) \/ RemoveRolesFromUser(U, ids))
            => /\ UNCHANGED <<roles, permissions, menus, role_permissions,
                              role_menus>>
               /\ \A e \in ChangedRows(user_roles, user_roles') : e[1] = U
      ]_vars

\* A permission replace on one role has run while the other role holds a
\* different, non-empty permission set, a user holds a role and a role
\* holds a menu.
C29_ReplaceBesideOtherRole ==
    /\ last = Returned("AssignPermissionsToRole", NoErr)
    /\ RolePermissionsOf(1) # {} /\ RolePermissionsOf(2) # {}
    /\ RolePermissionsOf(1) # RolePermissionsOf(2)
    /\ user_roles # {} /\ role_menus # {}

\* C30: route guards fail closed.  A guard passes the request on to the
\* next handler only when the context holds a parsable user id, the check
\* did not fail, and CheckUserPermission or CheckUserRole is true for that
\* user and for what the guard requires (for DynamicPermissionCheck: the
\* resource and action its path and method yield, neither of them empty).
C30_GuardsFailClosed ==
    (last.op \in {"RequirePermission", "RequireRole", "RequireAnyRole",
                  "RequireAnyPermission", "DynamicPermissionCheck"}
     /\ last.err = "next")
    => /\ last.c.user_id # Nil
       /\ Deref(last.c.user_id) \in Users
       /\ ~last.c.checkFails
       /\ LET uid == Deref(last.c.user_id)
              ra == extractResourceAndAction(last.c.path, last.c.method)
          IN  CASE last.op = "RequirePermission" ->
                     CheckUserPermission(uid, last.args[1], last.args[2])
                [] last.op = "RequireRole" -> CheckUserRole(uid, last.args)
                [] last.op = "RequireAnyRole" ->
                     \E i \in DOMAIN last.args : CheckUserRole(uid, last.args[i])
                [] last.op = "RequireAnyPermission" ->
                     \E i \in DOMAIN last.args :
                        /\ Len(last.args[i]) >= 2
                        /\ CheckUserPermission(uid, last.args[i][1],
                                               last.args[i][2])
                [] last.op = "DynamicPermissionCheck" ->
                     /\ ra[1] # "" /\ ra[2] # ""
                     /\ CheckUserPermission(uid, ra[1], ra[2])

====
